---- MODULE Spec2Model ----
(***************************************************************************)
(* A model of the pprint crate: the document algebra (src/src/doc.rs), the  *)
(* width estimator and the layout engine (src/src/print.rs), the           *)
(* minimum-raggedness justifier (src/src/utils.rs) and the digit-count      *)
(* helper (src/src/dtoa/count.rs, src/src/dtoa/utils.rs).                   *)
(*                                                                         *)
(* Bytes are numbers 0..255.  Fixed-width machine integers are sequences of *)
(* 8-bit limbs, least significant first, so that casts, complements and    *)
(* wrapping arithmetic keep their width.                                    *)
(***************************************************************************)
EXTENDS Integers, Sequences, FiniteSets, TLC

VARIABLES
    pc,                \* position in the operation being run
    input,             \* the test input: how the document (or integer) was built
    printer,           \* Printer { max_width, indent, use_tabs }
    stack,             \* PrintState.stack, top of the stack is the last element
    output,            \* PrintState.output
    current_line_len,  \* PrintState.current_line_len
    indent_delta,      \* PrintState.indent_delta
    space_cache,       \* PrintState.space_cache
    join_breaks,       \* PrintState.join_breaks
    popped,            \* the PrintItem popped by the latest loop iteration (<<>> before the first)
    result,            \* the String pprint returned (<<>> until it returns)
    dc_len,            \* what DigitCount::len returned
    dc_str,            \* what to_string returned
    memo_table,        \* the memo vector of text_justify (<<>> until it is filled)
    walk_i,            \* the variable i of the break walk of text_justify
    overflow_checks,   \* the build traps arithmetic overflow (debug_assertions) or wraps
    pretty_attributes, \* pprint_derive: the PrettyAttributes of the container
    derived,           \* pprint_derive: the Doc the generated From impl builds
    estimate           \* what count_text_length returned

vars == << pc, input, printer, stack, output, current_line_len, indent_delta,
           space_cache, join_breaks, popped, result, dc_len, dc_str, memo_table, walk_i, overflow_checks,
                    pretty_attributes, derived, estimate >>

(***************************************************************************)
(* Fixed-width unsigned arithmetic on limbs                                *)
(***************************************************************************)

\* y, the limbs x computed before it (the order in which the machine computes them)
After(x, y) == IF Len(x) >= 0 THEN y ELSE x

\* F applied to v, v computed once and before F (a `let v = ..;` statement)
Bound(v, F(_)) == CASE v = v -> F(v)

\* the sequence f with its elements computed, each once
Collected(f) == f \o <<>>

Zeros(L) == Collected([i \in 1..L |-> 0])

Ones(L) == Collected([i \in 1..L |-> 255])

IsZero(x) == \A i \in 1..Len(x) : x[i] = 0

\* !x
Not(x) == Collected([i \in 1..Len(x) |-> 255 - x[i]])

\* the carry into limb i of x + y + c: the nearest limb below i that does not pass a
\* carry on (sum # 255) makes one (sum >= 256), or there is none and c is carried in
CarryIn(x, y, c, i) ==
    \/ c = 1 /\ \A k \in 1..(i - 1) : x[k] + y[k] = 255
    \/ \E j \in 1..(i - 1) : /\ x[j] + y[j] >= 256
                             /\ \A k \in (j + 1)..(i - 1) : x[k] + y[k] = 255

\* x + y + c for a carry c of 0 or 1, wrapping to the width of x
AddC(x, y, c) ==
    Collected([i \in 1..Len(x) |-> (x[i] + y[i] + (IF CarryIn(x, y, c, i) THEN 1 ELSE 0)) % 256])

\* x.wrapping_add(y), both of the same width
WrappingAdd(x, y) == AddC(x, y, 0)

\* x - y for x >= y (two's complement, same width)
Sub(x, y) == AddC(x, Not(y), 1)

\* the limbs of the small number v, zero-extended to L limbs
NatLimbs(v, L) == Collected([i \in 1..L |-> IF i <= 4 THEN (v \div (256 ^ (i - 1))) % 256 ELSE 0])

\* x < y, both of the same width
Less(x, y) ==
    \E i \in 1..Len(x) : x[i] < y[i] /\ \A j \in (i + 1)..Len(x) : x[j] = y[j]

\* the number whose limb i is byte b (0 = lowest) of cols[i - b], wrapping to the
\* width of cols: the bytes b of the column values, each at its own weight
Plane(cols, b) ==
    Collected([i \in 1..Len(cols) |-> IF i > b THEN (cols[i - b] \div (256 ^ b)) % 256 ELSE 0])

\* the number sum of cols[i] * 256^(i - 1), every cols[i] < 2^31, wrapping to the
\* width of cols
Carried(cols) ==
    WrappingAdd(WrappingAdd(Plane(cols, 0), Plane(cols, 1)),
                WrappingAdd(Plane(cols, 2), Plane(cols, 3)))

\* x * m for a small m (m < 2^23), wrapping to the width of x
MulSmall(x, m) == Carried(Collected([i \in 1..Len(x) |-> x[i] * m]))

\* the sum of f[lo..hi]
RECURSIVE SumRange(_, _, _)
SumRange(f, lo, hi) ==
    IF lo > hi THEN 0
    ELSE IF lo = hi THEN f[lo]
    ELSE SumRange(f, lo, (lo + hi) \div 2) + SumRange(f, ((lo + hi) \div 2) + 1, hi)

\* the full product x * y, Len(x) + Len(y) limbs wide: column k sums the limb
\* products of weight 256^(k - 1)
Mul(x, y) ==
    Carried(Collected([k \in 1..(Len(x) + Len(y)) |->
                SumRange(Collected([i \in 1..Len(x) |->
                             IF k + 1 - i >= 1 /\ k + 1 - i <= Len(y) THEN x[i] * y[k + 1 - i] ELSE 0]),
                         1, Len(x))]))

LimbAt(x, i) == IF i >= 1 /\ i <= Len(x) THEN x[i] ELSE 0

\* x >> k, same width
Shr(x, k) ==
    LET q == k \div 8
        r == k % 8
    IN  Collected([i \in 1..Len(x) |->
            (LimbAt(x, i + q) \div (2 ^ r)) + (LimbAt(x, i + q + 1) % (2 ^ r)) * (2 ^ (8 - r))])

\* bit k (0 = least significant) of x
BitAt(x, k) == (x[(k \div 8) + 1] \div (2 ^ (k % 8))) % 2

\* the limbs lo..hi of the quotient of x by m, from the limb hi down, r the remainder
\* carried in, and the remainder carried out
RECURSIVE DivSmallFrom(_, _, _, _, _)
DivSmallFrom(x, m, lo, hi, r) ==
    IF lo > hi THEN [q |-> <<>>, r |-> r]
    ELSE IF lo = hi
    THEN LET cur == r * 256 + x[lo] IN [q |-> <<cur \div m>>, r |-> cur % m]
    ELSE LET mid == (lo + hi) \div 2
             a   == DivSmallFrom(x, m, mid + 1, hi, r)
             b   == DivSmallFrom(x, m, lo, mid, a.r)
         IN  After(a.q, [q |-> b.q \o a.q, r |-> b.r])

\* [q |-> x / m, r |-> x % m] for a small m
DivSmall(x, m) == DivSmallFrom(x, m, 1, Len(x), 0)

\* one step of the shift-and-subtract division, for the bit `bit` of a
DivBit(a, d, bit, st) ==
    LET r2 == [MulSmall(st.r, 2) EXCEPT ![1] = @ + BitAt(a, bit)]
        ge == ~Less(r2, d)
    IN  [r |-> After(r2, IF ge THEN Sub(r2, d) ELSE r2),
         q |-> IF ge THEN [st.q EXCEPT ![(bit \div 8) + 1] = @ + 2 ^ (bit % 8)] ELSE st.q]

\* the steps for the bits hi, hi - 1, .., lo in this order
RECURSIVE DivBits(_, _, _, _, _)
DivBits(a, d, hi, lo, st) ==
    IF hi = lo THEN DivBit(a, d, hi, st)
    ELSE LET mid == (hi + lo + 1) \div 2
             st1 == DivBits(a, d, hi, mid, st)
         IN  IF Len(st1.r) = 0 THEN st1 ELSE DivBits(a, d, mid - 1, lo, st1)

\* a / d (u64 / u64, d # 0), by shift and subtract
Div(a, d) ==
    DivBits(a, d \o <<0>>, 8 * Len(a) - 1, 0, [r |-> Zeros(Len(a) + 1), q |-> Zeros(Len(a))]).q

\* acc extended by the decimal digits ds[lo..hi]
RECURSIVE FromDigitsAcc(_, _, _, _)
FromDigitsAcc(ds, lo, hi, acc) ==
    IF lo = hi THEN WrappingAdd(MulSmall(acc, 10), NatLimbs(ds[lo], Len(acc)))
    ELSE LET mid  == (lo + hi) \div 2
             acc2 == FromDigitsAcc(ds, lo, mid, acc)
         IN  IF Len(acc2) = 0 THEN acc2 ELSE FromDigitsAcc(ds, mid + 1, hi, acc2)

\* the L-limb number written in decimal as the digit sequence ds
FromDigits(ds, L) == FromDigitsAcc(ds, 1, Len(ds), Zeros(L))

\* 10^k as an L-limb number
RECURSIVE Pow10(_, _)
Pow10(k, L) ==
    IF k < 6 THEN NatLimbs(10 ^ k, L)
    ELSE LET r == Pow10(k - 6, L)
         IN  IF Len(r) = 0 THEN r ELSE MulSmall(r, 1000000)

\* the four decimal digits of v < 10000, leading zeros kept only when padded
FourDigits(v, padded) ==
    LET ds == <<48 + (v \div 1000), 48 + ((v \div 100) % 10), 48 + ((v \div 10) % 10), 48 + (v % 10)>>
        lead == IF v >= 1000 THEN 1 ELSE IF v >= 100 THEN 2 ELSE IF v >= 10 THEN 3 ELSE 4
    IN  IF padded THEN ds ELSE SubSeq(ds, lead, 4)

\* the decimal digits of x # 0, produced four at a time from the least significant end
RECURSIVE DecimalDigits(_)
DecimalDigits(x) ==
    LET d == DivSmall(x, 10000)
    IN  IF IsZero(d.q) THEN FourDigits(d.r, FALSE)
        ELSE DecimalDigits(d.q) \o FourDigits(d.r, TRUE)

\* the decimal ASCII text of the unsigned number x
UDecimal(x) == IF IsZero(x) THEN <<48>> ELSE DecimalDigits(x)

(***************************************************************************)
(* Digit-count helper: src/src/dtoa/count.rs, src/src/dtoa/utils.rs         *)
(* An integer is [ty |-> its type, bits |-> its limbs in its own width].    *)
(***************************************************************************)

SmallIntTypes == {"i8", "i16", "i32", "i64", "isize", "u8", "u16", "u32", "u64", "usize"}

WideIntTypes == {"i128", "u128"}

IntTypes == SmallIntTypes \cup WideIntTypes

Signed(ty) == ty \in {"i8", "i16", "i32", "i64", "isize", "i128"}

\* size_of::<ty>() on a 64-bit target
SizeOf(ty) ==
    CASE ty \in {"i8", "u8"} -> 1
      [] ty \in {"i16", "u16"} -> 2
      [] ty \in {"i32", "u32"} -> 4
      [] ty \in {"i64", "u64", "isize", "usize"} -> 8
      [] ty \in {"i128", "u128"} -> 16

\* *self < 0
IsNeg(ty, x) == Signed(ty) /\ x[Len(x)] >= 128

\* a cast that zero-extends whatever the type: the sign of a negative value is lost
CastTo_zero_extended(ty, x, L) ==
    IF Len(x) >= L THEN SubSeq(x, 1, L) ELSE x \o Zeros(L - Len(x))

\* *self as u64 / *self as u128: sign-extended for a signed type, else zero-extended
CastTo(ty, x, L) ==
    IF Len(x) >= L THEN SubSeq(x, 1, L)
    ELSE x \o (IF IsNeg(ty, x) THEN Ones(L - Len(x)) ELSE Zeros(L - Len(x)))

\* the integer literals 10^k of the binary search, as u64
P10 == [k \in 0..19 |-> Pow10(k, 8)]

\* the binary search of impl_digit_count over the u64 n; p is P10
DigitTree(n, count, p) ==
    IF Less(n, p[10]) THEN
        IF Less(n, p[5]) THEN
            IF Less(n, p[2]) THEN
                IF Less(n, p[1]) THEN count + 1 ELSE count + 2
            ELSE
                IF Less(n, p[3]) THEN count + 3
                ELSE IF Less(n, p[4]) THEN count + 4
                ELSE count + 5
        ELSE
            IF Less(n, p[7]) THEN
                IF Less(n, p[6]) THEN count + 6 ELSE count + 7
            ELSE
                IF Less(n, p[8]) THEN count + 8
                ELSE IF Less(n, p[9]) THEN count + 9
                ELSE count + 10
    ELSE
        IF Less(n, p[16]) THEN
            IF Less(n, p[14]) THEN
                IF Less(n, p[11]) THEN count + 11
                ELSE IF Less(n, p[12]) THEN count + 12
                ELSE IF Less(n, p[13]) THEN count + 13
                ELSE count + 14
            ELSE
                IF Less(n, p[15]) THEN count + 15 ELSE count + 16
        ELSE
            IF Less(n, p[18]) THEN
                IF Less(n, p[17]) THEN count + 17 ELSE count + 18
            ELSE
                IF Less(n, p[19]) THEN count + 19 ELSE count + 20

\* impl_digit_count: DigitCount::len for i8, i16, i32, i64, isize, u8, u16, u32, u64, usize
len_64(ty, x) ==
    IF IsZero(x) THEN 1
    ELSE LET neg == IsNeg(ty, x)
         IN  Bound(IF neg THEN WrappingAdd(Not(CastTo(ty, x, 8)), NatLimbs(1, 8))
                   ELSE CastTo(ty, x, 8), LAMBDA n :
             DigitTree(n, IF neg THEN 1 ELSE 0, P10))

TEN_19 == Pow10(19, 8)

\* u128_mulhi: the upper 128 bits of x * y
u128_mulhi(x, y) ==
    LET x_lo == SubSeq(x, 1, 8)
        x_hi == SubSeq(x, 9, 16)
        y_lo == SubSeq(y, 1, 8)
        y_hi == SubSeq(y, 9, 16)
    IN  Bound(Mul(x_lo, y_lo), LAMBDA p0 :
        Bound(Shr(p0, 64), LAMBDA carry :
        Bound(Mul(x_lo, y_hi), LAMBDA p1 :
        Bound(WrappingAdd(p1, carry), LAMBDA m :
        Bound(Shr(m, 64), LAMBDA high1 :
        Bound(Mul(x_hi, y_lo), LAMBDA p2 :
        Bound(WrappingAdd(p2, SubSeq(m, 1, 8) \o Zeros(8)), LAMBDA s2 :
        Bound(Shr(s2, 64), LAMBDA high2 :
        Bound(Mul(x_hi, y_hi), LAMBDA p3 :
        Bound(WrappingAdd(p3, high1), LAMBDA s3 :
        WrappingAdd(s3, high2)))))))))))

\* the multiplier 156927543384667019095894735580191660403 of udivmod_1e19
Magic1e19 ==
    FromDigits(<<1,5,6,9,2,7,5,4,3,3,8,4,6,6,7,0,1,9,0,9,5,8,9,4,7,3,5,5,8,0,1,9,1,6,6,0,4,0,3>>, 16)

\* udivmod_1e19: [quot, rem] of the u128 n divided by 10^19
udivmod_1e19(n) ==
    Bound(IF Less(n, [Zeros(16) EXCEPT ![11] = 8])       \* n < 1 << 83
          THEN Div(SubSeq(Shr(n, 19), 1, 8), Shr(TEN_19, 19)) \o Zeros(8)
          ELSE Bound(u128_mulhi(n, Magic1e19), LAMBDA hi : Shr(hi, 62)), LAMBDA quot :
    Bound(Mul(quot, TEN_19 \o Zeros(8)), LAMBDA back :
    Bound(SubSeq(Sub(n, SubSeq(back, 1, 16)), 1, 8), LAMBDA rem :
    [quot |-> quot, rem |-> rem])))

\* impl_digit_count_128: DigitCount::len for i128, u128
len_128(ty, x) ==
    IF IsZero(x) THEN 1
    ELSE LET neg == IF IsNeg(ty, x) THEN 1 ELSE 0
         IN  Bound(IF neg = 1 THEN WrappingAdd(Not(CastTo(ty, x, 16)), NatLimbs(1, 16))
                   ELSE CastTo(ty, x, 16), LAMBDA n :
             Bound(udivmod_1e19(n), LAMBDA d1 :
             Bound(len_64("u64", d1.rem), LAMBDA c1 :
             IF IsZero(d1.quot) THEN c1 + neg
             ELSE Bound(udivmod_1e19(d1.quot), LAMBDA d2 :
                  Bound(c1 + (19 - c1) + len_64("u64", d2.rem), LAMBDA c2 :
                  IF IsZero(d2.quot) THEN c2 + neg
                  ELSE c2 + ((38 - c2) + 1) + neg)))))

\* DigitCount::len, by the type of the value
len(ty, x) == IF ty \in WideIntTypes THEN len_128(ty, x) ELSE len_64(ty, x)

\* ToString::to_string of an integer (core::fmt::Display): '-' and the decimal digits
to_string(ty, x) ==
    IF IsNeg(ty, x) THEN <<45>> \o UDecimal(WrappingAdd(Not(x), NatLimbs(1, Len(x))))
    ELSE UDecimal(x)

\* the limbs of the small number v as a value of type ty
IntBits(ty, v) ==
    IF v >= 0 THEN NatLimbs(v, SizeOf(ty)) ELSE Not(NatLimbs((-v) - 1, SizeOf(ty)))

(***************************************************************************)
(* Document algebra: src/src/doc.rs                                        *)
(* A document is [k |-> variant, b |-> bytes, n |-> number, kids |-> the    *)
(* child documents].  Join and SmartJoin keep the separator as kids[1].    *)
(***************************************************************************)

BYTES_SIZE == 24

Doc(k, b, n, kids) == [k |-> k, b |-> b, n |-> n, kids |-> kids]

Null == Doc("Null", <<>>, 0, <<>>)
Char(c) == Doc("Char", <<c>>, 0, <<>>)
DoubleChar(cs) == Doc("DoubleChar", cs, 0, <<>>)
TripleChar(cs) == Doc("TripleChar", cs, 0, <<>>)
QuadChar(cs) == Doc("QuadChar", cs, 0, <<>>)
Bytes(b, l) == Doc("Bytes", b, l, <<>>)
SmallBytes(b, l) == Doc("SmallBytes", b, l, <<>>)
DocString(s) == Doc("String", s, 0, <<>>)
\* Doc::i8 .. Doc::usize: ty is the variant, v the value
IntDoc(ty, v) == Doc(ty, <<>>, v, <<>>)
\* Doc::f32, Doc::f64: b is the text the float formatter writes for the value
FloatDoc(ty, b) == Doc(ty, b, 0, <<>>)
DoubleDoc(d1, d2) == Doc("DoubleDoc", <<>>, 0, <<d1, d2>>)
TripleDoc(d1, d2, d3) == Doc("TripleDoc", <<>>, 0, <<d1, d2, d3>>)
QuadDoc(d1, d2, d3, d4) == Doc("QuadDoc", <<>>, 0, <<d1, d2, d3, d4>>)
Concat(docs) == Doc("Concat", <<>>, 0, docs)
Group(d) == Doc("Group", <<>>, 0, <<d>>)
Indent(d) == Doc("Indent", <<>>, 0, <<d>>)
Dedent(d) == Doc("Dedent", <<>>, 0, <<d>>)
Join(sep, docs) == Doc("Join", <<>>, 0, <<sep>> \o docs)
SmartJoin(sep, docs) == Doc("SmartJoin", <<>>, 0, <<sep>> \o docs)
IfBreak(d, other) == Doc("IfBreak", <<>>, 0, <<d, other>>)
Trim == Doc("Trim", <<>>, 0, <<>>)
HardlineDoc(d) == Doc("HardlineDoc", <<>>, 0, <<d>>)
Hardline == Doc("Hardline", <<>>, 0, <<>>)
Softline == Doc("Softline", <<>>, 0, <<>>)
Mediumline == Doc("Mediumline", <<>>, 0, <<>>)
Line == Doc("Line", <<>>, 0, <<>>)

\* the separator and the items of a Join or SmartJoin
SepOf(doc) == doc.kids[1]
ItemsOf(doc) == Tail(doc.kids)

\* impl Add for Doc with the first arm prepending other, in place of docs.push(other)
add_prepending(self, other) ==
    IF self.k = "Concat" THEN Concat(<<other>> \o self.kids)
    ELSE IF other.k = "Concat" THEN Concat(<<self>> \o other.kids)
    ELSE Concat(<<self, other>>)

\* impl Add for Doc
add(self, other) ==
    IF self.k = "Concat" THEN Concat(Append(self.kids, other))
    ELSE IF other.k = "Concat" THEN Concat(<<self>> \o other.kids)
    ELSE Concat(<<self, other>>)

\* format_small_bytes: value is the text Display writes for the value
format_small_bytes(value) ==
    LET bytes == value \o Zeros(BYTES_SIZE - Len(value))
        l     == IF \E i \in 1..BYTES_SIZE : bytes[i] = 0
                 THEN (CHOOSE i \in 1..BYTES_SIZE :
                          bytes[i] = 0 /\ \A j \in 1..(i - 1) : bytes[j] # 0) - 1
                 ELSE BYTES_SIZE
    IN  IF l = 1 THEN Char(bytes[1])
        ELSE IF l = 2 THEN DoubleChar(<<bytes[1], bytes[2]>>)
        ELSE IF l = 3 THEN TripleChar(<<bytes[1], bytes[2], bytes[3]>>)
        ELSE IF l = 4 THEN QuadChar(<<bytes[1], bytes[2], bytes[3], bytes[4]>>)
        ELSE SmallBytes(bytes, l)

\* bytes(value, Some(l)), called with l = value.len() by every conversion
bytes(value, l) ==
    IF l = 1 THEN Char(value[1])
    ELSE IF l = 2 THEN DoubleChar(<<value[1], value[2]>>)
    ELSE IF l = 3 THEN TripleChar(<<value[1], value[2], value[3]>>)
    ELSE IF l = 4 THEN QuadChar(<<value[1], value[2], value[3], value[4]>>)
    ELSE IF l <= BYTES_SIZE THEN SmallBytes(value \o Zeros(BYTES_SIZE - l), l)
    ELSE Bytes(value, l)

group(doc) == Group(doc)

concat(docs) ==
    CASE Len(docs) = 0 -> Null
      [] Len(docs) = 1 -> docs[1]
      [] Len(docs) = 2 -> DoubleDoc(docs[1], docs[2])
      [] Len(docs) = 3 -> TripleDoc(docs[1], docs[2], docs[3])
      [] OTHER -> Concat(docs)

wrap(left, doc, right) == TripleDoc(left, doc, right)

join(sep, docs) == Join(sep, docs)

smart_join(sep, docs) == SmartJoin(sep, docs)

indent(doc) == Indent(doc)

dedent(doc) == Dedent(doc)

if_break(doc, other) == IfBreak(doc, other)

\* impl From<&str> for Doc, impl From<String> for Doc
from_str(s) == bytes(s, Len(s))

\* impl From<bool> for Doc
from_bool(b) == format_small_bytes(IF b THEN <<116, 114, 117, 101>> ELSE <<102, 97, 108, 115, 101>>)

\* impl From<Vec<T>> for Doc, the elements already converted
from_vec(vec) ==
    IF vec # <<>> THEN indent(wrap(from_str(<<91>>), group(smart_join(from_str(<<44, 32>>), vec)), from_str(<<93>>)))
    ELSE from_str(<<91, 93>>)

\* impl_from_tuple_to_doc, the elements already converted
from_tuple(elems) ==
    wrap(from_str(<<40>>), group(join(from_str(<<44, 32>>), elems)), from_str(<<41>>))

(***************************************************************************)
(* Minimum-raggedness justifier: src/src/utils.rs                          *)
(***************************************************************************)

\* usize::MAX, the initial badness; the model's integers are narrower than usize
\* and every badness it computes stays far below this value
USIZE_MAX == 2147483647

Min(a, b) == IF a < b THEN a ELSE b

Max(a, b) == IF a > b THEN a ELSE b

\* a.saturating_sub(b) on usize
saturating_sub(a, b) == IF a > b THEN a - b ELSE 0

\* a.saturating_add(b) on usize
saturating_add(a, b) == IF a > USIZE_MAX - b THEN USIZE_MAX ELSE a + b

\* a + b does not fit usize: a panic where overflow checks are compiled in (the
\* default of debug builds), a wrapped result where they are not
add_overflows(a, b) == a > USIZE_MAX - b

\* a.wrapping_add(b) on usize
wrapping_add_usize(a, b) == IF add_overflows(a, b) THEN (a - (USIZE_MAX - b)) - 1 ELSE a + b

\* a * b does not fit usize
mul_overflows(a, b) == b # 0 /\ a > USIZE_MAX \div b

\* a.wrapping_mul(b) on usize: the low bits of the full product
wrapping_mul_usize(a, b) ==
    IF ~mul_overflows(a, b) THEN a * b
    ELSE Bound(Mul(NatLimbs(a, 4), NatLimbs(b, 4)), LAMBDA x :
         x[1] + x[2] * 256 + x[3] * 65536 + (x[4] % 128) * 16777216)

\* a checked usize value: v as the wrapping operations give it, o whether an
\* operation on the way to it overflowed
Checked(v, o) == [v |-> v, o |-> o]

\* a + b on checked values
checked_add(a, b) == Checked(wrapping_add_usize(a.v, b.v), a.o \/ b.o \/ add_overflows(a.v, b.v))

\* a * b on checked values
checked_mul(a, b) == Checked(wrapping_mul_usize(a.v, b.v), a.o \/ b.o \/ mul_overflows(a.v, b.v))

\* iter().sum() over checked values xs[lo..hi]
RECURSIVE checked_sum(_, _, _)
checked_sum(xs, lo, hi) ==
    IF lo > hi THEN Checked(0, FALSE)
    ELSE IF lo = hi THEN xs[lo]
    ELSE Bound(checked_sum(xs, lo, (lo + hi) \div 2), LAMBDA a :
         Bound(checked_sum(xs, ((lo + hi) \div 2) + 1, hi), LAMBDA b :
         checked_add(a, b)))

\* x.pow(3) on usize, checked
checked_pow3(x) == checked_mul(checked_mul(Checked(x, FALSE), Checked(x, FALSE)), Checked(x, FALSE))

\* the inner loop body that keeps the last j it tries, whatever its badness
justify_body_last_found(st, i, j, sep_length, doc_lengths, max_width) ==
    IF st.broke THEN st
    ELSE Bound(checked_add(Checked(st.line_length, FALSE), Checked(doc_lengths[j + 1], FALSE)), LAMBDA l1 :
         Bound(IF j > i THEN checked_add(l1, Checked(sep_length, FALSE)) ELSE l1, LAMBDA l2 :
         Bound(Min(l2.v, max_width), LAMBDA line_length :
         Bound(checked_pow3(max_width - line_length), LAMBDA badness :
         Bound(checked_add(badness, Checked(st.memo[j + 2].badness, FALSE)), LAMBDA total :
         [memo |-> IF TRUE
                   THEN [st.memo EXCEPT ![i + 1] = [badness |-> total.v, j |-> j + 1]]
                   ELSE st.memo,
          line_length |-> line_length,
          broke |-> line_length >= max_width,
          overflowed |-> st.overflowed \/ l2.o \/ total.o])))))

\* the inner loop body that stores j in place of j + 1
justify_body_off_by_one(st, i, j, sep_length, doc_lengths, max_width) ==
    IF st.broke THEN st
    ELSE Bound(checked_add(Checked(st.line_length, FALSE), Checked(doc_lengths[j + 1], FALSE)), LAMBDA l1 :
         Bound(IF j > i THEN checked_add(l1, Checked(sep_length, FALSE)) ELSE l1, LAMBDA l2 :
         Bound(Min(l2.v, max_width), LAMBDA line_length :
         Bound(checked_pow3(max_width - line_length), LAMBDA badness :
         Bound(checked_add(badness, Checked(st.memo[j + 2].badness, FALSE)), LAMBDA total :
         [memo |-> IF total.v < st.memo[i + 1].badness
                   THEN [st.memo EXCEPT ![i + 1] = [badness |-> total.v, j |-> j]]
                   ELSE st.memo,
          line_length |-> line_length,
          broke |-> line_length >= max_width,
          overflowed |-> st.overflowed \/ l2.o \/ total.o])))))

\* the inner loop body that lets a later j of equal badness replace the one found
justify_body_last_tie(st, i, j, sep_length, doc_lengths, max_width) ==
    IF st.broke THEN st
    ELSE Bound(checked_add(Checked(st.line_length, FALSE), Checked(doc_lengths[j + 1], FALSE)), LAMBDA l1 :
         Bound(IF j > i THEN checked_add(l1, Checked(sep_length, FALSE)) ELSE l1, LAMBDA l2 :
         Bound(Min(l2.v, max_width), LAMBDA line_length :
         Bound(checked_pow3(max_width - line_length), LAMBDA badness :
         Bound(checked_add(badness, Checked(st.memo[j + 2].badness, FALSE)), LAMBDA total :
         [memo |-> IF total.v <= st.memo[i + 1].badness
                   THEN [st.memo EXCEPT ![i + 1] = [badness |-> total.v, j |-> j + 1]]
                   ELSE st.memo,
          line_length |-> line_length,
          broke |-> line_length >= max_width,
          overflowed |-> st.overflowed \/ l2.o \/ total.o])))))

\* the body of the inner loop of text_justify for one j; memo[k + 1] is the code's
\* memo[k], st.broke records that the loop has left through its break, and
\* st.overflowed that one of its additions or its pow(3) did not fit usize
justify_body(st, i, j, sep_length, doc_lengths, max_width) ==
    IF st.broke THEN st
    ELSE Bound(checked_add(Checked(st.line_length, FALSE), Checked(doc_lengths[j + 1], FALSE)), LAMBDA l1 :
         Bound(IF j > i THEN checked_add(l1, Checked(sep_length, FALSE)) ELSE l1, LAMBDA l2 :
         Bound(Min(l2.v, max_width), LAMBDA line_length :
         Bound(checked_pow3(max_width - line_length), LAMBDA badness :
         Bound(checked_add(badness, Checked(st.memo[j + 2].badness, FALSE)), LAMBDA total :
         [memo |-> IF total.v < st.memo[i + 1].badness
                   THEN [st.memo EXCEPT ![i + 1] = [badness |-> total.v, j |-> j + 1]]
                   ELSE st.memo,
          line_length |-> line_length,
          broke |-> line_length >= max_width,
          overflowed |-> st.overflowed \/ l2.o \/ total.o])))))

\* the inner loop of text_justify, for j in lo..=hi
RECURSIVE justify_inner(_, _, _, _, _, _, _)
justify_inner(st, i, lo, hi, sep_length, doc_lengths, max_width) ==
    IF lo > hi THEN st
    ELSE IF lo = hi THEN justify_body(st, i, lo, sep_length, doc_lengths, max_width)
    ELSE LET mid == (lo + hi) \div 2
             st1 == justify_inner(st, i, lo, mid, sep_length, doc_lengths, max_width)
         IN  IF st1.line_length < 0 THEN st1
             ELSE justify_inner(st1, i, mid + 1, hi, sep_length, doc_lengths, max_width)

\* the outer loop of text_justify, for i in (lo..=hi).rev(); acc is the memo and
\* whether an operation has overflowed so far
RECURSIVE justify_outer(_, _, _, _, _, _)
justify_outer(acc, hi, lo, sep_length, doc_lengths, max_width) ==
    IF hi = lo
    THEN Bound(justify_inner([memo |-> acc.memo, line_length |-> 0, broke |-> FALSE,
                              overflowed |-> acc.overflowed], hi, hi,
                             Len(doc_lengths) - 1, sep_length, doc_lengths, max_width), LAMBDA st :
         [memo |-> st.memo, overflowed |-> st.overflowed])
    ELSE LET mid  == (hi + lo + 1) \div 2
             acc2 == justify_outer(acc, hi, mid, sep_length, doc_lengths, max_width)
         IN  IF Len(acc2.memo) = 0 THEN acc2
             ELSE justify_outer(acc2, mid - 1, lo, sep_length, doc_lengths, max_width)

\* the memo initialised and the nested loops run: the memo they leave, and whether
\* an operation overflowed
justify_loops(sep_length, doc_lengths, max_width) ==
    LET n     == Len(doc_lengths)
        memo0 == Collected([k \in 1..(n + 1) |->
                    IF k = n + 1 THEN [badness |-> 0, j |-> 0]
                    ELSE [badness |-> USIZE_MAX, j |-> n]])
    IN  justify_outer([memo |-> memo0, overflowed |-> FALSE], n, 0, sep_length, doc_lengths, max_width)

\* the memo table text_justify builds
justify_memo(sep_length, doc_lengths, max_width) ==
    justify_loops(sep_length, doc_lengths, max_width).memo

\* text_justify overflows on its way
justify_overflows(sep_length, doc_lengths, max_width) ==
    justify_loops(sep_length, doc_lengths, max_width).overflowed

\* the break walk of text_justify: while i < n { j = memo[i].j; output.push(j); i = j }
RECURSIVE justify_walk(_, _, _, _)
justify_walk(memo, i, n, out) ==
    IF i >= n THEN out
    ELSE LET j == memo[i + 1].j
         IN  justify_walk(memo, j, n, Append(out, j))

text_justify(sep_length, doc_lengths, max_width, out) ==
    justify_walk(justify_memo(sep_length, doc_lengths, max_width), 0, Len(doc_lengths), out)

(***************************************************************************)
(* Width estimator and layout engine: src/src/print.rs                     *)
(* A PrintState is [stack, output, current_line_len, indent_delta,          *)
(* space_cache, join_breaks]; `left` of a PrintItem is <<>> (None) or       *)
(* <<doc>> (Some(doc)).                                                     *)
(***************************************************************************)

IntKinds == IntTypes

LiteralKinds ==
    {"Char", "DoubleChar", "TripleChar", "QuadChar", "SmallBytes", "Bytes", "String",
     "f32", "f64", "Line", "Softline", "Mediumline", "Hardline"} \cup IntKinds

PrintItem(doc, ind, left, break_left) ==
    [doc |-> doc, indent_delta |-> ind, left |-> left, break_left |-> break_left]

RECURSIVE is_literal_doc(_)
is_literal_doc(doc) ==
    CASE doc.k = "DoubleDoc" -> is_literal_doc(doc.kids[1]) /\ is_literal_doc(doc.kids[2])
      [] doc.k = "TripleDoc" ->
            is_literal_doc(doc.kids[1]) /\ is_literal_doc(doc.kids[2]) /\ is_literal_doc(doc.kids[3])
      [] doc.k = "HardlineDoc" -> is_literal_doc(doc.kids[1])
      [] OTHER -> doc.k \in LiteralKinds

\* iter().sum()
SumSeq(xs) == SumRange(xs, 1, Len(xs))

\* iter().max().unwrap_or(0)
MaxSeq(xs) == IF xs = <<>> THEN 0 ELSE CHOOSE m \in {xs[i] : i \in 1..Len(xs)} : \A i \in 1..Len(xs) : xs[i] <= m

\* count_text_length as a checked value
RECURSIVE text_length(_, _)

\* count_join_length as a checked value
join_length(sep, docs, p) ==
    IF docs = <<>> THEN Checked(0, FALSE)
    ELSE Bound(Collected([i \in 1..Len(docs) |-> text_length(docs[i], p)]), LAMBDA lens :
         Bound(checked_sum(lens, 1, Len(lens)), LAMBDA doc_len :
         Bound(text_length(sep, p), LAMBDA sep_len :
         checked_add(doc_len, checked_mul(sep_len, Checked(Len(docs) - 1, FALSE))))))

text_length(doc, p) ==
    CASE doc.k = "Concat" ->
            Bound(Collected([i \in 1..Len(doc.kids) |-> text_length(doc.kids[i], p)]), LAMBDA lens :
            checked_sum(lens, 1, Len(lens)))
      [] doc.k = "Group" -> text_length(doc.kids[1], p)
      [] doc.k = "Indent" ->
            Bound(text_length(doc.kids[1], p), LAMBDA l : Checked(saturating_add(l.v, p.indent), l.o))
      [] doc.k = "Dedent" ->
            Bound(text_length(doc.kids[1], p), LAMBDA l : Checked(saturating_sub(l.v, p.indent), l.o))
      [] doc.k = "Join" -> join_length(SepOf(doc), ItemsOf(doc), p)
      [] doc.k = "SmartJoin" ->
            Bound(join_length(SepOf(doc), ItemsOf(doc), p), LAMBDA l :
            Bound(checked_add(l, Checked(p.max_width, FALSE)), LAMBDA lw :
            Checked(Min(l.v, lw.v), lw.o)))
      [] doc.k = "IfBreak" ->
            Bound(text_length(doc.kids[1], p), LAMBDA t :
            Bound(text_length(doc.kids[2], p), LAMBDA f :
            Checked(Max(t.v, f.v), t.o \/ f.o)))
      [] doc.k = "Softline" -> Checked(p.max_width \div 2, FALSE)
      [] doc.k \in {"Hardline", "Line"} -> Checked(p.max_width, FALSE)
      [] doc.k = "Char" -> Checked(1, FALSE)
      [] doc.k = "DoubleChar" -> Checked(2, FALSE)
      [] doc.k = "TripleChar" -> Checked(3, FALSE)
      [] doc.k = "QuadChar" -> Checked(4, FALSE)
      [] doc.k \in {"SmallBytes", "Bytes"} -> Checked(doc.n, FALSE)
      [] doc.k = "String" -> Checked(Len(doc.b), FALSE)
      [] doc.k \in IntKinds -> Checked(len(doc.k, IntBits(doc.k, doc.n)), FALSE)
      [] doc.k = "f32" -> Checked(10, FALSE)
      [] doc.k = "f64" -> Checked(20, FALSE)
      [] OTHER -> Checked(0, FALSE)

\* what count_join_length returns where no overflow check stops it
count_join_length(sep, docs, p) == join_length(sep, docs, p).v

\* what count_text_length returns where no overflow check stops it
count_text_length(doc, p) == text_length(doc, p).v

smart_join_breaks(sep, docs, s, p) ==
    Bound(Max(p.max_width \div 4, 2), LAMBDA max_width :
    Bound(count_text_length(sep, p), LAMBDA sep_length :
    Bound(Collected([i \in 1..Len(docs) |-> count_text_length(docs[i], p)]), LAMBDA doc_lengths :
    Bound(wrapping_add_usize(sep_length, Max(sep_length, MaxSeq(doc_lengths))), LAMBDA sep_length2 :
    [s EXCEPT !.join_breaks = text_justify(sep_length2, doc_lengths, max_width, <<>>)]))))

\* an addition, a sum or a pow(3) of smart_join_breaks, or of the estimates and the
\* text_justify it calls, does not fit usize
smart_join_overflows(sep, docs, p) ==
    Bound(Max(p.max_width \div 4, 2), LAMBDA max_width :
    Bound(text_length(sep, p), LAMBDA sep_length :
    Bound(Collected([i \in 1..Len(docs) |-> text_length(docs[i], p)]), LAMBDA lengths :
    Bound(Collected([i \in 1..Len(docs) |-> lengths[i].v]), LAMBDA doc_lengths :
    Bound(checked_add(sep_length, Checked(Max(sep_length.v, MaxSeq(doc_lengths)), FALSE)), LAMBDA sep_length2 :
    \/ sep_length2.o
    \/ \E i \in 1..Len(docs) : lengths[i].o
    \/ justify_overflows(sep_length2.v, doc_lengths, max_width))))))

\* format_int: the decimal text itoap writes
format_int(ty, v) == to_string(ty, IntBits(ty, v))

\* append_line changes the state; the value it returns is s.indent_delta
append_line(s, p) ==
    LET sc1   == IF s.space_cache = <<>> THEN <<10>> ELSE s.space_cache
        space == IF p.use_tabs THEN 9 ELSE 32
        sc2   == IF s.indent_delta >= Len(sc1)
                 THEN sc1 \o [i \in 1..(s.indent_delta - Len(sc1) + 1) |-> space]
                 ELSE sc1
    IN  [s EXCEPT !.space_cache = sc2, !.output = @ \o SubSeq(sc2, 1, s.indent_delta)]

\* handle_line with the threshold of Softline for Mediumline too
handle_line_medium_at_full(doc, s, p) ==
    CASE doc.k = "Line" -> [s |-> [s EXCEPT !.output = Append(@, 10)], v |-> 0]
      [] doc.k = "Hardline" -> [s |-> append_line(s, p), v |-> s.indent_delta]
      [] doc.k = "Mediumline" /\ s.current_line_len > p.max_width ->
            [s |-> append_line(s, p), v |-> s.indent_delta]
      [] doc.k = "Softline" /\ s.current_line_len > p.max_width ->
            [s |-> append_line(s, p), v |-> s.indent_delta]
      [] OTHER -> [s |-> s, v |-> s.current_line_len]

\* [s |-> the state after, v |-> the value returned]
handle_line(doc, s, p) ==
    CASE doc.k = "Line" -> [s |-> [s EXCEPT !.output = Append(@, 10)], v |-> 0]
      [] doc.k = "Hardline" -> [s |-> append_line(s, p), v |-> s.indent_delta]
      [] doc.k = "Mediumline" /\ s.current_line_len > p.max_width \div 2 ->
            [s |-> append_line(s, p), v |-> s.indent_delta]
      [] doc.k = "Softline" /\ s.current_line_len > p.max_width ->
            [s |-> append_line(s, p), v |-> s.indent_delta]
      [] OTHER -> [s |-> s, v |-> s.current_line_len]

\* the bytes handle_literal appends for doc and the offset it counts for them
LiteralBytes(doc) ==
    CASE doc.k \in {"Char", "DoubleChar", "TripleChar", "QuadChar"} -> doc.b
      [] doc.k \in {"SmallBytes", "Bytes", "String", "f32", "f64"} -> doc.b
      [] doc.k \in IntKinds -> format_int(doc.k, doc.n)
      [] OTHER -> <<>>

LiteralOffset(doc) ==
    CASE doc.k = "Char" -> 1
      [] doc.k = "DoubleChar" -> 2
      [] doc.k = "TripleChar" -> 3
      [] doc.k = "QuadChar" -> 4
      [] doc.k \in {"SmallBytes", "Bytes"} -> doc.n
      [] doc.k \in {"String", "f32", "f64"} -> Len(doc.b)
      [] doc.k \in IntKinds -> Len(format_int(doc.k, doc.n))
      [] OTHER -> 0

RECURSIVE handle_literal(_, _, _)
handle_literal(doc, s, p) ==
    Bound([s EXCEPT !.output = @ \o LiteralBytes(doc)], LAMBDA s1 :
    Bound(handle_line(doc, s1, p), LAMBDA hl :
    Bound([hl.s EXCEPT !.current_line_len = LiteralOffset(doc) + hl.v], LAMBDA s2 :
    CASE doc.k = "DoubleDoc" ->
            handle_literal(doc.kids[2], handle_literal(doc.kids[1], s2, p), p)
      [] doc.k = "TripleDoc" ->
            handle_literal(doc.kids[3],
                handle_literal(doc.kids[2], handle_literal(doc.kids[1], s2, p), p), p)
      [] OTHER -> s2)))

Push(s, item) == [s EXCEPT !.stack = Append(@, item)]

\* the items of handle_join with the separator to the left of every item, the
\* first one included
join_items_leading_sep(sep, docs, s, sep_is_lit) ==
    LET n == Len(docs)
        break_left(i) == IF \E k \in 1..Len(s.join_breaks) : s.join_breaks[k] = i
                         THEN s.indent_delta ELSE 0
        item(i) == PrintItem(docs[i + 1], s.indent_delta,
                             IF sep_is_lit THEN <<sep>> ELSE <<>>, break_left(i))
        sep_item(i) == PrintItem(sep, s.indent_delta, <<>>, break_left(i))
    IN  IF n = 0 THEN <<>>
        ELSE IF sep_is_lit THEN [k \in 1..n |-> item(n - k)]
        ELSE [k \in 1..(2 * n - 1) |->
                 IF k % 2 = 1 THEN item(n - ((k + 1) \div 2)) ELSE sep_item(n - (k \div 2))]

\* the items handle_join pushes for the docs n - 1, n - 2, .., 0 (0-based), in push
\* order: the item of docs[i] and, for a separator that is not a literal, the
\* separator's own item after it
join_items(sep, docs, s, sep_is_lit) ==
    LET n == Len(docs)
        break_left(i) == IF \E k \in 1..Len(s.join_breaks) : s.join_breaks[k] = i
                         THEN s.indent_delta ELSE 0
        item(i) == PrintItem(docs[i + 1], s.indent_delta,
                             IF i > 0 /\ sep_is_lit THEN <<sep>> ELSE <<>>, break_left(i))
        sep_item(i) == PrintItem(sep, s.indent_delta, <<>>, break_left(i))
    IN  IF n = 0 THEN <<>>
        ELSE IF sep_is_lit THEN [k \in 1..n |-> item(n - k)]
        ELSE [k \in 1..(2 * n - 1) |->
                 IF k % 2 = 1 THEN item(n - ((k + 1) \div 2)) ELSE sep_item(n - (k \div 2))]

handle_join(doc, sep, docs, s, p) ==
    Bound(IF doc.k = "SmartJoin" THEN smart_join_breaks(sep, docs, s, p) ELSE s, LAMBDA s1 :
    [s1 EXCEPT !.stack = @ \o join_items(sep, docs, s1, is_literal_doc(sep))])

handle_n_docs_unrolled(doc, s, p) ==
    LET It(d) == PrintItem(d, s.indent_delta, <<>>, 0)
        doc1  == doc.kids[1]
        doc2  == doc.kids[2]
        doc3  == doc.kids[3]
        lit1  == is_literal_doc(doc1)
        lit2  == is_literal_doc(doc2)
        lit3  == is_literal_doc(doc3)
    IN  IF doc.k = "DoubleDoc" THEN
            IF lit1 /\ lit2 THEN handle_literal(doc2, handle_literal(doc1, s, p), p)
            ELSE IF lit1 /\ ~lit2 THEN Push(handle_literal(doc1, s, p), It(doc2))
            ELSE Push(Push(s, It(doc2)), It(doc1))
        ELSE
            IF lit1 /\ lit2 /\ lit3
            THEN handle_literal(doc3, handle_literal(doc2, handle_literal(doc1, s, p), p), p)
            ELSE IF lit1 /\ lit2 /\ ~lit3
            THEN Push(handle_literal(doc2, handle_literal(doc1, s, p), p), It(doc3))
            ELSE IF lit1 /\ ~lit2 /\ ~lit3
            THEN Push(Push(handle_literal(doc1, s, p), It(doc3)), It(doc2))
            ELSE Push(Push(Push(s, It(doc3)), It(doc2)), It(doc1))

\* the Concat arm without .rev(): the children pushed first to last, so popped last to first
ArmConcat_unreversed(doc, ind, s) ==
    [s EXCEPT !.stack = @ \o [i \in 1..Len(doc.kids) |-> PrintItem(doc.kids[i], ind, <<>>, 0)]]

\* the Doc::Concat arm of pprint
ArmConcat(doc, ind, s) ==
    [s EXCEPT !.stack = @ \o [i \in 1..Len(doc.kids) |->
                                  PrintItem(doc.kids[Len(doc.kids) + 1 - i], ind, <<>>, 0)]]

\* the Doc::Group arm of pprint
ArmGroup(doc, ind, s, p) ==
    Bound(doc.kids[1], LAMBDA d :
    Bound(count_text_length(d, p) > p.max_width, LAMBDA needs_breaking :
    Bound(IF needs_breaking
          THEN Push(s, PrintItem(Hardline, saturating_sub(ind, p.indent), <<>>, 0))
          ELSE s, LAMBDA s1 :
    Push(s1, PrintItem(d, ind, <<>>, IF needs_breaking THEN ind ELSE 0)))))

\* the Doc::IfBreak arm of pprint
ArmIfBreak(doc, ind, s) ==
    LET is_or_was_broken ==
            /\ s.stack # <<>>
            /\ s.stack[Len(s.stack)].doc.k \in {"Hardline", "Softline"}
        chosen == IF is_or_was_broken THEN doc.kids[1] ELSE doc.kids[2]
    IN  Push(s, PrintItem(chosen, ind, <<>>, 0))

\* the unwrapping of Indent and Dedent at the head of the loop body: the document
\* the match dispatches on, and its indent
UnwrapDoc(item) == IF item.doc.k \in {"Indent", "Dedent"} THEN item.doc.kids[1] ELSE item.doc

\* the unwrapping with a plain subtraction for Dedent, in place of saturating_sub
UnwrapIndent_unsaturated(item, p) ==
    CASE item.doc.k = "Indent" -> saturating_add(item.indent_delta, p.indent)
      [] item.doc.k = "Dedent" -> item.indent_delta - p.indent
      [] OTHER -> item.indent_delta

UnwrapIndent(item, p) ==
    CASE item.doc.k = "Indent" -> saturating_add(item.indent_delta, p.indent)
      [] item.doc.k = "Dedent" -> saturating_sub(item.indent_delta, p.indent)
      [] OTHER -> item.indent_delta

\* one iteration of the loop of pprint, the stack not empty
LoopBody(s, p) ==
    Bound(s.stack[Len(s.stack)], LAMBDA item :
    Bound([s EXCEPT !.stack = SubSeq(@, 1, Len(@) - 1)], LAMBDA s0 :
    Bound(IF item.left # <<>> THEN handle_literal(item.left[1], s0, p) ELSE s0, LAMBDA s1 :
    Bound(IF item.break_left > 0
          THEN [append_line(s1, p) EXCEPT !.current_line_len = s1.indent_delta]
          ELSE s1, LAMBDA s2 :
    Bound(UnwrapDoc(item), LAMBDA doc :
    Bound(UnwrapIndent(item, p), LAMBDA ind :
    Bound([s2 EXCEPT !.indent_delta = ind], LAMBDA s3 :
    CASE doc.k = "Concat" -> ArmConcat(doc, ind, s3)
      [] doc.k = "Group" -> ArmGroup(doc, ind, s3, p)
      [] doc.k = "IfBreak" -> ArmIfBreak(doc, ind, s3)
      [] doc.k \in {"Join", "SmartJoin"} -> handle_join(doc, SepOf(doc), ItemsOf(doc), s3, p)
      [] doc.k \in {"DoubleDoc", "TripleDoc"} -> handle_n_docs_unrolled(doc, s3, p)
      [] OTHER -> handle_literal(doc, s3, p))))))))

\* the iteration that LoopBody runs on s computes a usize that does not fit: the
\* estimate of the Group arm, or smart_join_breaks in handle_join
LoopOverflows(s, p) ==
    Bound(UnwrapDoc(s.stack[Len(s.stack)]), LAMBDA doc :
    CASE doc.k = "Group" -> text_length(doc.kids[1], p).o
      [] doc.k = "SmartJoin" -> smart_join_overflows(SepOf(doc), ItemsOf(doc), p)
      [] OTHER -> FALSE)

\* the PrintState pprint starts from
NewState(doc) ==
    [stack |-> <<PrintItem(doc, 0, <<>>, 0)>>, output |-> <<>>, current_line_len |-> 0,
     indent_delta |-> 0, space_cache |-> <<>>, join_breaks |-> <<>>]

\* up to 2^e iterations of the loop of pprint, fewer when the stack empties
RECURSIVE RunSome(_, _, _)
RunSome(s, p, e) ==
    IF s.stack = <<>> THEN s
    ELSE IF e = 0 THEN LoopBody(s, p)
    ELSE LET s2 == RunSome(s, p, e - 1)
         IN  IF Len(s2.output) < 0 THEN s2 ELSE RunSome(s2, p, e - 1)

\* while let Some(item) = state.stack.pop() { .. }
RECURSIVE RunLoop(_, _, _)
RunLoop(s, p, e) ==
    LET s2 == RunSome(s, p, e)
    IN  IF s2.stack = <<>> THEN s2 ELSE RunLoop(s2, p, e + 1)

\* pprint as a function: the String it returns for doc under the printer p
pprint(doc, p) == RunLoop(NewState(doc), p, 0).output

Printer(max_width, ind, break_long_text, use_tabs) ==
    [max_width |-> max_width, indent |-> ind, break_long_text |-> break_long_text,
     use_tabs |-> use_tabs]

\* pub const PRINTER
PRINTER == Printer(80, 4, FALSE, FALSE)

(***************************************************************************)
(* Inputs of the layout engine                                             *)
(***************************************************************************)

\* the longest text payload tried
MaxTextLen == 26

\* the deepest nesting of Indent (or Dedent) tried
MaxDepth == 3

\* the most items of a join or a sequence tried
MaxItems == 6

\* the length of the long sequence of scenario 3
LongVecLen == 30

\* a text of l lower-case letters, "abc..."
Payload(l) == [i \in 1..l |-> 97 + ((i - 1) % 26)]

Hello == <<104, 101, 108, 108, 111>>

\* the integers 1..n as documents (Vec<i32> elements converted)
Ints(n) == [i \in 1..n |-> IntDoc("i32", i)]

\* x under d levels of Indent, each level reached through a Concat
RECURSIVE Nest(_, _)
Nest(d, x) == IF d = 0 THEN x ELSE Indent(Concat(<<Nest(d - 1, x)>>))

\* x under d levels of Dedent, each level reached through a Concat
RECURSIVE NestDedent(_, _)
NestDedent(d, x) == IF d = 0 THEN x ELSE Dedent(Concat(<<NestDedent(d - 1, x)>>))

SmallPrinter == Printer(16, 2, FALSE, FALSE)

TabPrinter == Printer(80, 4, FALSE, TRUE)

Scenario3Printer == Printer(32, 4, FALSE, FALSE)

Printers == {PRINTER, SmallPrinter, TabPrinter}

\* an input: the document given to pprint, how it was built (name), the payload s,
\* the operand documents a and b, the depth d, and the printer
Case(name, doc, s, a, b, d, p) ==
    [name |-> name, doc |-> doc, s |-> s, a |-> a, b |-> b, d |-> d, printer |-> p]

TextCases ==
    {Case("text", from_str(Payload(l)), Payload(l), Null, Null, 0, PRINTER) : l \in 0..MaxTextLen}
    \cup {Case("text", from_str(Hello), Hello, Null, Null, 0, PRINTER)}
    \cup {Case("bool", from_bool(TRUE), <<116, 114, 117, 101>>, Null, Null, 0, PRINTER),
          Case("bool", from_bool(FALSE), <<102, 97, 108, 115, 101>>, Null, Null, 0, PRINTER)}

AHB == <<Char(97), Hardline, Char(98)>>

HardlineCases ==
    {Case("hardline", Nest(d, Concat(AHB)), <<>>, Null, Null, d, p) :
        d \in 0..MaxDepth, p \in Printers}
    \cup {Case("hardline", Nest(d, Hardline), <<>>, Null, Null, d, p) :
        d \in 0..MaxDepth, p \in Printers}
    \cup {Case("scenario4", Indent(Concat(AHB)), <<>>, Null, Null, 1, PRINTER),
          Case("scenario4", Indent(concat(AHB)), <<>>, Null, Null, 1, PRINTER)}

GroupCases ==
    {Case("group", Nest(d, Group(DocString(Payload(l)))), Payload(l), Null, Null, d, SmallPrinter) :
        d \in 0..MaxDepth, l \in {3, 16, 17, MaxTextLen}}

CommaSpace == from_str(<<44, 32>>)

JoinCases ==
    {Case("vec", from_vec(Ints(n)), <<>>, Null, Null, 0, p) :
        n \in 0..MaxItems, p \in {PRINTER, SmallPrinter}}
    \cup {Case("smart_join", smart_join(CommaSpace, Ints(n)), <<>>, Null, Null, 0, p) :
        n \in 0..MaxItems, p \in {PRINTER, SmallPrinter}}
    \cup {Case("smart_join", Indent(smart_join(CommaSpace, Ints(n))), <<>>, Null, Null, 1, p) :
        n \in 0..MaxItems, p \in {PRINTER, SmallPrinter}}
    \cup {Case("join", Indent(join(CommaSpace, Ints(n))), <<>>, Null, Null, 1, p) :
        n \in 0..MaxItems, p \in {PRINTER, SmallPrinter}}
    \cup {Case("tuple", from_tuple(Ints(n)), <<>>, Null, Null, 0, p) :
        n \in 2..MaxItems, p \in {PRINTER, SmallPrinter}}

Scenario3Cases ==
    {Case("scenario3", from_vec(Ints(LongVecLen)), <<>>, Null, Null, 0, Scenario3Printer)}

\* IfBreak(",", ".") between a preceding document a and a following document b
IfBreakDoc == IfBreak(Char(44), Char(46))

IfBreakCases ==
    {Case("if_break", Indent(Concat(<<a, IfBreakDoc, b>>)), <<>>, a, b, 1, PRINTER) :
        a \in {Hardline, Char(97)}, b \in {Null, Hardline, Softline, Char(98)}}
    \cup {Case("if_break", Indent(concat(<<a, IfBreakDoc, b>>)), <<>>, a, b, 1, PRINTER) :
        a \in {Hardline, Char(97)}, b \in {Null, Hardline, Softline, Char(98)}}
    \cup {Case("if_break", Indent(concat(<<a, IfBreakDoc>>)), <<>>, a, Null, 1, PRINTER) :
        a \in {Hardline, Char(97)}}

\* documents with no Group, no IfBreak and no width-sensitive node
\* (Softline, Mediumline, SmartJoin)
PlainPool ==
    {Null, Char(97), from_str(Hello), IntDoc("i32", -12), Hardline, Line,
     Concat(<<>>), Concat(<<Char(120), Char(121)>>), Concat(AHB),
     DoubleDoc(Char(120), Hardline), TripleDoc(Char(40), Indent(Concat(AHB)), Char(41)),
     Indent(Concat(AHB)), Indent(Char(99)), Dedent(Concat(AHB)),
     Indent(Concat(<<Char(112), Indent(Concat(<<Hardline, Char(113)>>)), Hardline, Char(114)>>)),
     Join(Char(44), <<Char(49), Char(50), Char(51)>>),
     Indent(Join(Hardline, <<Char(49), Indent(Char(50)), Char(51)>>)),
     Join(DoubleDoc(Char(44), Indent(Hardline)), <<Char(49), Char(50)>>),
     HardlineDoc(Char(104)), QuadDoc(Char(49), Char(50), Char(51), Char(52))}

ConcatCases ==
    {Case("concat", concat(<<a, b>>), <<>>, a, b, 0, p) : a \in PlainPool, b \in PlainPool, p \in {PRINTER}}
    \cup {Case("add", add(a, b), <<>>, a, b, 0, p) : a \in PlainPool, b \in PlainPool, p \in {PRINTER}}
    \cup {Case("Concat", Concat(<<a, b>>), <<>>, a, b, 0, p) : a \in PlainPool, b \in PlainPool, p \in {PRINTER}}

IndentDedentCases ==
    {Case("indent_dedent", Indent(Dedent(a)), <<>>, a, Null, 0, p) :
        a \in PlainPool \cup {Group(DocString(Payload(MaxTextLen)))}, p \in {PRINTER, SmallPrinter}}

DedentCases ==
    {Case("dedent", NestDedent(d, Concat(AHB)), <<>>, Null, Null, d, p) :
        d \in 1..MaxDepth, p \in Printers}
    \cup {Case("dedent", Indent(Concat(<<NestDedent(d, Concat(AHB))>>)), <<>>, Null, Null, d, p) :
        d \in 1..MaxDepth, p \in Printers}
    \cup {Case("dedent", NestDedent(d, Group(DocString(Payload(MaxTextLen)))), <<>>, Null, Null, d, SmallPrinter) :
        d \in 1..MaxDepth}

\* Group(D) as the whole document, for plain D and for D with a Softline inside
GroupSymmetryCases ==
    {Case("group_symmetry", Group(a), <<>>, a, Null, 0, p) :
        a \in PlainPool \cup {DocString(Payload(MaxTextLen)),
                              Concat(<<Char(97), Softline, DocString(Payload(MaxTextLen))>>)},
        p \in {PRINTER, SmallPrinter}}

\* Printer::new(usize::MAX, 4, false, false)
WidestPrinter == Printer(USIZE_MAX, 4, FALSE, FALSE)

\* documents printed under the widest printer: a Vec, a tuple, a text in a group
WidestCases ==
    {Case("widest", from_vec([i \in 1..n |-> from_str(Payload(i))]), <<>>, Null, Null, 0, WidestPrinter) :
        n \in 0..3}
    \cup {Case("widest", from_tuple(<<Char(97), Char(98)>>), <<>>, Null, Null, 0, WidestPrinter),
          Case("widest", group(from_str(Hello)), <<>>, Null, Null, 0, WidestPrinter),
          Case("widest", smart_join(CommaSpace, <<Char(97), Char(98)>>), <<>>, Null, Null, 0, WidestPrinter)}

\* the nodes with no children
EmptyNodes ==
    {Concat(<<>>)} \cup {Join(sep, <<>>) : sep \in {CommaSpace, Hardline}}
    \cup {SmartJoin(sep, <<>>) : sep \in {CommaSpace, Hardline}}

\* a node with no children as the whole document, indented, grouped, and between
\* two characters
EmptyCases ==
    UNION {{Case("empty", w, <<>>, e, Null, 0, p) : w \in {e, Indent(e), Group(e)}} :
        e \in EmptyNodes, p \in {PRINTER, SmallPrinter}}
    \cup {Case("empty_within", Concat(<<Char(97), e, Char(98)>>), <<>>, e, Null, 0, p) :
        e \in EmptyNodes, p \in {PRINTER, SmallPrinter}}

\* a Join and a SmartJoin of one literal item, as the whole document and indented
SingleCases ==
    UNION {{Case("single", w, <<>>, x, Null, 0, p) :
               w \in {Join(sep, <<x>>), SmartJoin(sep, <<x>>),
                      Indent(Join(sep, <<x>>)), Indent(SmartJoin(sep, <<x>>))}} :
        x \in {Char(97), from_str(Hello), IntDoc("i32", -12)},
        sep \in {CommaSpace, Hardline},
        p \in {PRINTER, SmallPrinter}}

\* the smallest and the largest tuple with a From impl
MinArity == 2
MaxArity == 12

\* tuples of integers of every arity, converted to a document; a holds the elements
TupleCases ==
    {Case("tuple", from_tuple([i \in 1..n |-> IntDoc("i32", i)]), <<>>,
          Concat([i \in 1..n |-> IntDoc("i32", i)]), Null, 0, p) :
        n \in MinArity..MaxArity, p \in {PRINTER, SmallPrinter}}

\* the first n lower-case letters as Char documents
Letters(n) == [i \in 1..n |-> Char(96 + i)]

\* an indented Concat of a document a and then a plain Join b of letters on ","
JoinAfterCases ==
    {Case("join_after", Indent(Concat(<<a, join(Char(44), Letters(m))>>)), <<>>,
          a, join(Char(44), Letters(m)), 1, p) :
        a \in {Null, Char(120)} \cup {smart_join(CommaSpace, Ints(n)) : n \in 1..3},
        m \in 1..MaxItems, p \in {PRINTER, SmallPrinter}}

\* a SmartJoin of n integers on ", " under d levels of Indent
SmartDepthCases ==
    {Case("smart_depth", Nest(d, smart_join(CommaSpace, Ints(n))), <<>>,
          smart_join(CommaSpace, Ints(n)), Null, d, p) :
        d \in 0..MaxDepth, n \in 2..MaxItems, p \in {PRINTER, SmallPrinter}}

\* documents that hold a Hardline: alone, and combined with other documents through
\* concat, wrap, the + operator, Doc::Concat, Indent and Dedent
HardlineHolders ==
    {Hardline,
     concat(<<Char(120), Hardline>>),
     concat(<<Char(120), Hardline, Char(121)>>),
     concat(<<Char(120), Hardline, Char(121), Char(122)>>),
     Concat(<<Hardline>>),
     add(Char(120), Hardline),
     wrap(Char(40), Hardline, Char(41)),
     Indent(Hardline),
     Dedent(Hardline)}

\* a Group of such a document between characters, one Indent deep
GroupHardlineCases ==
    {Case("group_hardline", Indent(Concat(<<Char(97), Group(h), Char(98), Char(99)>>)), <<>>,
          h, Null, 1, p) :
        h \in HardlineHolders, p \in {PRINTER, SmallPrinter}}

\* the lengths of the text before a Softline, Mediumline or Line: below, at and
\* above max_width / 2 and max_width of SmallPrinter
ColumnsBefore == {3, 8, 9, 16, 17, MaxTextLen}

\* a text, then a Softline, a Mediumline or a Line, then 'b', under d levels of
\* Indent; the line is also wrapped in an Indent of its own
SoftLineCases ==
    {Case("soft_line", Nest(d, Concat(<<DocString(Payload(l)), x, Char(98)>>)), Payload(l),
          x, Null, d, SmallPrinter) :
        d \in 0..MaxDepth, l \in ColumnsBefore,
        x \in {Softline, Mediumline, Line, Indent(Softline), Indent(Mediumline)}}

\* every wrapper variant around literal leaves, some of them nested in one another
WrappedLeaves ==
    {Indent(Char(120)), Indent(Indent(Char(120))), Dedent(Dedent(Char(120))),
     Indent(Group(Char(120))), Group(Indent(Char(120))), Group(Group(Char(120))),
     Concat(<<Char(120), IntDoc("i32", -12), Char(121)>>),
     Concat(<<Concat(<<Char(120), Char(121)>>), Group(Concat(<<Char(122), Char(119)>>))>>),
     DoubleDoc(Char(120), Char(121)), DoubleDoc(Group(Char(120)), Char(121)),
     DoubleDoc(Char(120), Indent(Char(121))),
     TripleDoc(Char(120), Char(121), Char(122)), TripleDoc(Char(120), Group(Char(121)), Char(122)),
     TripleDoc(Group(Char(120)), Char(121), Indent(Concat(<<Char(122)>>))),
     QuadDoc(Char(120), Char(121), Char(122), Char(119)),
     HardlineDoc(Char(120)),
     Concat(<<Char(120), HardlineDoc(Char(121)), Char(122)>>),
     Join(Char(44), <<Char(120), Group(Char(121)), Char(122)>>),
     Join(Group(Char(44)), <<Char(120), Char(121), Char(122)>>),
     SmartJoin(Char(44), <<Char(120), Char(121), Indent(Concat(<<Char(122)>>))>>),
     Indent(Concat(<<SmartJoin(Char(44), <<Char(120), Char(121)>>), Join(Char(59), <<Char(122), Char(119)>>)>>))}

LeavesCases ==
    {Case("leaves", w, <<>>, Null, Null, 0, p) : w \in WrappedLeaves, p \in {PRINTER, SmallPrinter}}

\* separators that print ", ": literal ones, which handle_join attaches to the item as
\* left, and non-literal ones, which it pushes as work items of their own
CommaSeps ==
    {CommaSpace, DoubleDoc(Char(44), Char(32)),
     Concat(<<Char(44), Char(32)>>), Group(CommaSpace)}

\* a SmartJoin of n letters on such a separator under d levels of Indent
BetweenCases ==
    {Case("between", Nest(d, SmartJoin(sep, Letters(n))), <<>>, sep, SmartJoin(sep, Letters(n)),
          d, SmallPrinter) :
        sep \in CommaSeps, d \in 0..MaxDepth, n \in 2..MaxItems}

\* an Indent or a Dedent subtree followed by a sibling: in a Concat, a DoubleDoc, a
\* TripleDoc, a Join on Hardline and a SmartJoin
SiblingHolders ==
    {Concat(<<Indent(Concat(AHB)), Hardline, Char(122)>>),
     Concat(<<Dedent(Concat(AHB)), Hardline, Char(122)>>),
     DoubleDoc(Indent(Concat(AHB)), Hardline),
     DoubleDoc(Dedent(Char(120)), Hardline),
     TripleDoc(Indent(Char(120)), Hardline, Char(122)),
     TripleDoc(Char(120), Dedent(Concat(AHB)), Hardline),
     Join(Hardline, <<Indent(Char(120)), Char(121)>>),
     Join(Hardline, <<Dedent(Char(120)), Char(121)>>),
     SmartJoin(CommaSpace, <<Indent(Char(120)), Char(121), Char(122)>>)}

SiblingCases ==
    {Case("sibling", Nest(d, h), <<>>, h, Null, d, p) :
        h \in SiblingHolders, d \in 0..MaxDepth, p \in {PRINTER, SmallPrinter}}

\* the operands of +: literals, line breaks, Concats (empty and not), an Indent and
\* a Group too wide for SmallPrinter
PlusPool ==
    {Char(97), from_str(Payload(17)), Softline, Hardline,
     Concat(<<>>), Concat(<<Char(120), Char(121)>>), Concat(AHB),
     Indent(Concat(AHB)), Group(Concat(<<from_str(Payload(17)), Softline, Char(122)>>))}

\* (a + b) + c as the document, a + (b + c) and Doc::Concat([a, b, c]) beside it
PlusCases ==
    {Case("plus", add(add(x, y), z), <<>>, add(x, add(y, z)), Concat(<<x, y, z>>), 0, SmallPrinter) :
        x \in PlusPool, y \in PlusPool, z \in PlusPool}

Cases ==
    PlusCases \cup SiblingCases \cup BetweenCases \cup LeavesCases \cup SoftLineCases \cup GroupHardlineCases \cup WidestCases \cup TupleCases \cup JoinAfterCases \cup SmartDepthCases \cup EmptyCases \cup SingleCases \cup TextCases \cup HardlineCases \cup GroupCases \cup JoinCases \cup Scenario3Cases
    \cup IfBreakCases \cup ConcatCases \cup IndentDedentCases \cup DedentCases
    \cup GroupSymmetryCases

(***************************************************************************)
(* The layout engine as a state machine: pprint of src/src/print.rs        *)
(***************************************************************************)

\* the PrintState of the run
St ==
    [stack |-> stack, output |-> output, current_line_len |-> current_line_len,
     indent_delta |-> indent_delta, space_cache |-> space_cache, join_breaks |-> join_breaks]

SetSt(s) ==
    /\ stack' = s.stack
    /\ output' = s.output
    /\ current_line_len' = s.current_line_len
    /\ indent_delta' = s.indent_delta
    /\ space_cache' = s.space_cache
    /\ join_breaks' = s.join_breaks

\* pprint is entered: the state is built and the document pushed
Init ==
    \E c \in Cases :
        /\ pc = "loop"
        /\ input = c
        /\ printer = c.printer
        /\ stack = NewState(c.doc).stack
        /\ output = NewState(c.doc).output
        /\ current_line_len = NewState(c.doc).current_line_len
        /\ indent_delta = NewState(c.doc).indent_delta
        /\ space_cache = NewState(c.doc).space_cache
        /\ join_breaks = NewState(c.doc).join_breaks
        /\ popped = <<>>
        /\ result = <<>>
        /\ dc_len = 0
        /\ dc_str = <<>>
        /\ memo_table = <<>>
        /\ walk_i = 0
        /\ overflow_checks \in BOOLEAN
        /\ pretty_attributes = <<>>
        /\ derived = Null
        /\ estimate = 0

\* while let Some(item) = state.stack.pop() { .. }: one iteration, that a build
\* without overflow checks runs on wrapped values
Loop ==
    /\ pc = "loop"
    /\ stack # <<>>
    /\ ~(overflow_checks /\ LoopOverflows(St, printer))
    /\ SetSt(LoopBody(St, printer))
    /\ popped' = <<stack[Len(stack)]>>
    /\ UNCHANGED << pc, input, printer, result, dc_len, dc_str, memo_table, walk_i, overflow_checks,
                    pretty_attributes, derived, estimate >>

\* the iteration overflows in a build with overflow checks: the thread panics with
\* "attempt to add with overflow" (or multiply) and pprint returns nothing
Panic ==
    /\ pc = "loop"
    /\ stack # <<>>
    /\ overflow_checks
    /\ LoopOverflows(St, printer)
    /\ pc' = "panicked"
    /\ popped' = <<stack[Len(stack)]>>
    /\ UNCHANGED << input, printer, stack, output, current_line_len, indent_delta,
                    space_cache, join_breaks, result, dc_len, dc_str, memo_table, walk_i,
                    overflow_checks,
                    pretty_attributes, derived, estimate >>

\* the stack is empty: String::from_utf8_unchecked(state.output) is returned
Return ==
    /\ pc = "loop"
    /\ stack = <<>>
    /\ result' = output
    /\ pc' = "done"
    /\ UNCHANGED << input, printer, stack, output, current_line_len, indent_delta,
                    space_cache, join_breaks, popped, dc_len, dc_str, memo_table, walk_i, overflow_checks,
                    pretty_attributes, derived, estimate >>

Next == Loop \/ Panic \/ Return

Spec == Init /\ [][Next]_vars

(***************************************************************************)
(* Properties of the layout engine                                         *)
(***************************************************************************)

\* the item the next loop iteration pops
Top == stack[Len(stack)]

\* d indent bytes under the printer p
IndentBytes(d, p) == [i \in 1..d |-> IF p.use_tabs THEN 9 ELSE 32]

\* a line break at depth d, as the layout rules describe it
LineBreak(d, p) == <<10>> \o IndentBytes(d, p)

Contains(seq, byte) == \E i \in 1..Len(seq) : seq[i] = byte

\* the positions of the line breaks of text, and 0 for the start of the text
BreakPositions(text) == {0} \cup {i \in 1..Len(text) : text[i] = 10}

\* the line of text that starts after the break position b
LineAfter(text, b) ==
    LET later == {j \in 1..Len(text) : j > b /\ text[j] = 10} \cup {Len(text) + 1}
        e     == CHOOSE j \in later : \A k \in later : j <= k
    IN  SubSeq(text, b + 1, e - 1)

FirstLine(text) == LineAfter(text, 0)

LastLine(text) ==
    LineAfter(text, CHOOSE b \in BreakPositions(text) : \A c \in BreakPositions(text) : c <= b)

\* the number of indent bytes line starts with
LeadingIndent(line) ==
    CHOOSE k \in 0..Len(line) :
        /\ \A i \in 1..k : line[i] \in {9, 32}
        /\ k = Len(line) \/ line[k + 1] \notin {9, 32}

RECURSIVE HasKind(_, _)
HasKind(doc, kinds) ==
    \/ doc.k \in kinds
    \/ \E i \in 1..Len(doc.kids) : HasKind(doc.kids[i], kinds)

\* C1: pprint of the document built from a text payload s (by the string or the
\* boolean conversion) with the default printer returns exactly the bytes of s.
C1_TextBytesPreserved ==
    (pc = "done" /\ input.name \in {"text", "bool"}) => result = input.s

\* C1 witness: the five bytes of "hello" came back followed by the zero padding of
\* the SmallBytes array
C1_Witness ==
    /\ pc = "done"
    /\ input.name = "text"
    /\ input.s = Hello
    /\ result = Hello \o Zeros(BYTES_SIZE - Len(Hello))

\* C2: whenever a Hardline is emitted at indent depth d, the output gains exactly
\* '\n' followed by d indent bytes and current_column becomes d.
C2_HardlineEmitsIndent ==
    [][(pc = "loop" /\ stack # <<>> /\ UnwrapDoc(Top).k = "Hardline"
            /\ Top.left = <<>> /\ Top.break_left = 0)
        => /\ output' = output \o LineBreak(UnwrapIndent(Top, printer), printer)
           /\ current_line_len' = UnwrapIndent(Top, printer)]_vars

\* C2 witness: Indent(Concat([a, Hardline, b])) under indent = 4 finished with
\* three spaces after the newline
C2_Witness ==
    /\ pc = "done"
    /\ input.name = "scenario4"
    /\ printer.indent = 4
    /\ result = <<97, 10, 32, 32, 32, 98>>

\* C3: a Group(x) at depth d prints x alone when estimate(x) <= max_width, and
\* otherwise a line break, x, and a line break one indent step shallower.
C3_GroupBreaks ==
    (pc = "done" /\ input.name = "group") =>
        LET d == input.d * printer.indent
        IN  IF count_text_length(DocString(input.s), printer) <= printer.max_width
            THEN result = input.s
            ELSE result = LineBreak(d, printer) \o input.s
                            \o LineBreak(saturating_sub(d, printer.indent), printer)

\* C3 witness: a Group at depth 0 whose estimate exceeds max_width finished with
\* its content alone
C3_Witness ==
    /\ pc = "done"
    /\ input.name = "group"
    /\ input.d = 0
    /\ count_text_length(DocString(input.s), printer) > printer.max_width
    /\ result = input.s

\* C4: a document with no Hardline and no Line whose estimate is at most max_width
\* prints with no newline byte.
C4_NoBreakFits ==
    (/\ pc = "done"
     /\ ~HasKind(input.doc, {"Hardline", "Line"})
     /\ count_text_length(input.doc, printer) <= printer.max_width)
        => ~Contains(result, 10)

\* C4 witness: a SmartJoin with no Hardline and no Line, estimate within max_width,
\* finished with a newline in its output
C4_Witness ==
    /\ pc = "done"
    /\ input.name = "smart_join"
    /\ ~HasKind(input.doc, {"Hardline", "Line"})
    /\ count_text_length(input.doc, printer) <= printer.max_width
    /\ Contains(result, 10)

\* C5: the sequence 1..30 under max_width = 32, indent = 4 prints on several lines,
\* the first "[1, 2, 3, 4, 5, 6, 7,", every continuation line starting with exactly
\* `indent` spaces, no line ending in whitespace, the last line "]".
C5_LongVecLayout ==
    (pc = "done" /\ input.name = "scenario3") =>
        LET bs == BreakPositions(result)
        IN  /\ Cardinality(bs) > 1
            /\ FirstLine(result) = <<91, 49, 44, 32, 50, 44, 32, 51, 44, 32, 52, 44, 32, 53,
                                     44, 32, 54, 44, 32, 55, 44>>
            /\ \A b \in bs \ {0} :
                  LineAfter(result, b) = LastLine(result)
                    \/ LeadingIndent(LineAfter(result, b)) = printer.indent
            /\ \A b \in bs :
                  LET l == LineAfter(result, b) IN l = <<>> \/ l[Len(l)] \notin {9, 32}
            /\ LastLine(result) = <<93>>

\* C5 witness: the sequence 1..30 finished with "[" alone on its first line
C5_Witness ==
    /\ pc = "done"
    /\ input.name = "scenario3"
    /\ Cardinality(BreakPositions(result)) > 1
    /\ FirstLine(result) = <<91>>

\* C6: IfBreak(on, off) emits on exactly when the item emitted immediately before it
\* was a line break, whatever follows it.
C6_IfBreakLooksBack ==
    (pc = "done" /\ input.name = "if_break") =>
        /\ Contains(result, 44) <=> input.a.k = "Hardline"
        /\ Contains(result, 46) <=> input.a.k # "Hardline"

\* C6 witness: an IfBreak directly after a Hardline, with nothing after it,
\* finished with off and without on
C6_Witness ==
    /\ pc = "done"
    /\ input.name = "if_break"
    /\ input.a.k = "Hardline"
    /\ input.b.k = "Null"
    /\ Contains(result, 46)
    /\ ~Contains(result, 44)

\* C7: pprint(Indent(Dedent(D))) equals pprint(D).
C7_IndentDedentIdentity ==
    (pc = "done" /\ input.name = "indent_dedent") => result = pprint(input.a, printer)

\* C7 witness: Indent(Dedent(Char 'a')) finished with nothing printed
C7_Witness ==
    /\ pc = "done"
    /\ input.name = "indent_dedent"
    /\ input.a = Char(97)
    /\ pprint(input.a, printer) = <<97>>
    /\ result = <<>>

\* C8: for a and b with no Group, no break-conditional and no width-sensitive node,
\* pprint of their concatenation (by concat, by +, or as Doc::Concat) is pprint(a)
\* followed by pprint(b).
C8_ConcatIsAppend ==
    (pc = "done" /\ input.name \in {"concat", "add", "Concat"}) =>
        result = pprint(input.a, printer) \o pprint(input.b, printer)

\* C8 witness: a finished run of a + b, both printing something, b reached through a Join
C8_Witness ==
    /\ pc = "done"
    /\ input.name = "add"
    /\ input.a = Indent(Concat(AHB))
    /\ input.b.k = "Join"
    /\ Len(result) > Len(pprint(input.a, printer))

\* C9: however many Dedent are nested, the indent depth of every work item and of
\* the state stays >= 0, and no line starts with more indent bytes than the deepest
\* Indent nesting gives.
C9_DedentSaturates ==
    /\ indent_delta >= 0
    /\ \A i \in 1..Len(stack) : stack[i].indent_delta >= 0 /\ stack[i].break_left >= 0
    /\ \A i \in 1..Len(popped) : popped[i].indent_delta >= 0
    /\ \A b \in BreakPositions(output) :
          LeadingIndent(LineAfter(output, b)) <= (MaxDepth + 1) * printer.indent

\* C9 witness: a Dedent was processed at depth 0, below one indent step, and the
\* depth stayed 0
C9_Witness ==
    /\ pc = "loop"
    /\ input.name = "dedent"
    /\ popped # <<>>
    /\ popped[1].doc.k = "Dedent"
    /\ popped[1].indent_delta < printer.indent
    /\ indent_delta = 0

\* sub occurs in text as a run of consecutive bytes
Occurs(sub, text) ==
    \E o \in 0..(Len(text) - Len(sub)) : SubSeq(text, o + 1, o + Len(sub)) = sub

\* C13: pprint(Group(D)) equals pprint(D) when estimate(D) <= max_width; otherwise it
\* starts with '\n' and the indent (depth 0: no byte) and, for D without softlines,
\* contains pprint(D).
C13_GroupSymmetry ==
    (pc = "done" /\ input.name = "group_symmetry") =>
        IF count_text_length(input.a, printer) <= printer.max_width
        THEN result = pprint(input.a, printer)
        ELSE /\ result # <<>>
             /\ result[1] = 10
             /\ HasKind(input.a, {"Softline", "Mediumline"})
                    \/ Occurs(pprint(input.a, printer), result)

\* C13 witness: a Group over a text wider than max_width finished as the text alone,
\* with no newline before it
C13_Witness ==
    /\ pc = "done"
    /\ input.name = "group_symmetry"
    /\ input.a = DocString(Payload(MaxTextLen))
    /\ count_text_length(input.a, printer) > printer.max_width
    /\ result = pprint(input.a, printer)
    /\ result[1] # 10

\* C14: no step of the pprint loop fails or panics, whatever the document and the
\* printer: the run never ends in a panic
C14_NoStepPanics == pc # "panicked"

\* a Vec of one element printed under Printer::new(usize::MAX, 4, false, false) in
\* a build with overflow checks: the estimate of the Group arm adds max_width to
\* the length of the SmartJoin and the run ends in a panic, nothing returned
C14_Witness ==
    /\ pc = "panicked"
    /\ input.name = "widest"
    /\ input.doc = from_vec(<<from_str(Payload(1))>>)
    /\ printer.max_width = USIZE_MAX
    /\ popped # <<>>
    /\ popped[1].doc.k = "Group"
    /\ result = <<>>

\* the document has no children: a Concat, a Join or a SmartJoin of nothing
IsEmptyNode(doc) ==
    \/ doc.k = "Concat" /\ doc.kids = <<>>
    \/ doc.k \in {"Join", "SmartJoin"} /\ ItemsOf(doc) = <<>>

\* C15: a Concat, a Join and a SmartJoin with no children emit nothing: as the
\* whole document they print the empty string, and the iteration that pops one
\* leaves the output and the current column as they were; a Join or SmartJoin of
\* one item prints the item and no separator
C15_EmptyEmitsNothing ==
    /\ []((pc = "done" /\ input.name = "empty") => result = <<>>)
    /\ []((pc = "done" /\ input.name = "empty_within") => result = <<97, 98>>)
    /\ []((pc = "done" /\ input.name = "single") => result = pprint(input.a, printer))
    /\ [][(/\ pc = "loop"
           /\ stack # <<>>
           /\ IsEmptyNode(UnwrapDoc(Top))
           /\ Top.left = <<>>
           /\ Top.break_left = 0)
          => (output' = output /\ current_line_len' = current_line_len)]_vars

\* the empty SmartJoin between 'a' and 'b' has been popped: the output is still "a"
\* and the column still 1
C15_Witness ==
    /\ pc = "loop"
    /\ input.name = "empty_within"
    /\ popped # <<>>
    /\ popped[1].doc = SmartJoin(CommaSpace, <<>>)
    /\ output = <<97>>
    /\ current_line_len = 1

\* C16: the conversion of a tuple yields its elements joined by a ", " SmartJoin,
\* the join in a Group, the group between "(" and ")"
C16_TupleIsSmartJoin ==
    input.name = "tuple" =>
        input.doc = TripleDoc(from_str(<<40>>),
                              Group(SmartJoin(from_str(<<44, 32>>), input.a.kids)),
                              from_str(<<41>>))

\* the pair (1, 2) was converted and printed: the document holds a plain Join
C16_Witness ==
    /\ pc = "done"
    /\ input.name = "tuple"
    /\ input.a.kids = <<IntDoc("i32", 1), IntDoc("i32", 2)>>
    /\ input.doc = TripleDoc(from_str(<<40>>),
                             Group(Join(from_str(<<44, 32>>), input.a.kids)),
                             from_str(<<41>>))
    /\ result = <<40, 49, 44, 32, 50, 41>>

\* item0 sep item1 sep .. of literal items from item k on, with a line break at
\* the depth given before each item whose 0-based index is in S and not 0
RECURSIVE JoinText(_, _, _, _, _, _)
JoinText(sep, items, k, S, depth, p) ==
    IF k > Len(items) THEN <<>>
    ELSE (IF k > 1 THEN LiteralBytes(sep) ELSE <<>>)
         \o (IF k > 1 /\ (k - 1) \in S THEN LineBreak(depth, p) ELSE <<>>)
         \o LiteralBytes(items[k])
         \o JoinText(sep, items, k + 1, S, depth, p)

\* C19: a plain Join emits item0 sep item1 sep .. and no line break of the engine,
\* whatever was printed before it, a SmartJoin included
C19_JoinAddsNoBreak ==
    (pc = "done" /\ input.name = "join_after") =>
        result = pprint(Indent(input.a), printer)
                 \o JoinText(SepOf(input.b), ItemsOf(input.b), 1, {}, 0, printer)

\* vec-like SmartJoin of three integers, then the Join a,b,c,d: the output carries
\* a line break inside the Join
C19_Witness ==
    /\ pc = "done"
    /\ input.name = "join_after"
    /\ input.a = smart_join(CommaSpace, Ints(3))
    /\ input.b = join(Char(44), Letters(4))
    /\ printer = PRINTER
    /\ Contains(result, 10)
    /\ ~Contains(pprint(Indent(input.a), printer), 10)

\* the break set the justifier returns for the SmartJoin doc under the printer p
BreakSet(doc, p) ==
    LET breaks == smart_join_breaks(SepOf(doc), ItemsOf(doc), NewState(Null), p).join_breaks
    IN  {breaks[k] : k \in 1..Len(breaks)}

\* C20: a SmartJoin at indent depth d gets a line break indented to depth d before
\* the item at every index of the break set S with 0 < i < n, for every d, 0
\* included, and before no other item
C20_SmartJoinBreaksAtDepth ==
    (pc = "done" /\ input.name = "smart_depth") =>
        result = JoinText(SepOf(input.a), ItemsOf(input.a), 1, BreakSet(input.a, printer),
                          input.d * printer.indent, printer)

\* six integers at depth 0 under the narrow printer: the break set holds an index
\* between 0 and n, and the output holds no line break
C20_Witness ==
    /\ pc = "done"
    /\ input.name = "smart_depth"
    /\ input.d = 0
    /\ Len(ItemsOf(input.a)) = 6
    /\ \E i \in BreakSet(input.a, printer) : 0 < i /\ i < 6
    /\ ~Contains(result, 10)

\* C21: a Group whose child holds a Hardline takes the needs-breaking branch: once
\* the Group is popped, its child is on the stack with a break to its left and the
\* closing Hardline beneath it
C21_HardlineGroupBreaks ==
    (pc = "loop" /\ input.name = "group_hardline" /\ popped # <<>>
     /\ popped[1].doc = Group(input.a)) =>
        /\ Len(stack) >= 2
        /\ Top.doc = input.a
        /\ Top.break_left > 0
        /\ stack[Len(stack) - 1].doc = Hardline

\* Group(Hardline) at depth 1 has been popped: the estimate is max_width, not more,
\* and the Hardline is pushed with no break and no closing Hardline
C21_Witness ==
    /\ pc = "loop"
    /\ input.name = "group_hardline"
    /\ input.a = Hardline
    /\ popped # <<>>
    /\ popped[1].doc = Group(Hardline)
    /\ popped[1].indent_delta > 0
    /\ count_text_length(Hardline, printer) = printer.max_width
    /\ Top.doc = Hardline
    /\ Top.break_left = 0
    /\ stack[Len(stack) - 1].doc = Char(98)

\* C25: after every step of the pprint loop current_line_len is the number of
\* bytes of the output after its last '\n', the whole output if it has none
C25_ColumnTracksOutput ==
    pc \in {"loop", "done"} => current_line_len = Len(LastLine(output))

\* Indent(Concat(['a', Hardline, 'b'])) under the default printer, the Hardline just
\* popped: the output ends in '\n' and three spaces, current_line_len is 4
C25_Witness ==
    /\ pc = "loop"
    /\ input.name = "hardline"
    /\ input.doc = Nest(1, Concat(AHB))
    /\ printer = PRINTER
    /\ popped # <<>>
    /\ popped[1].doc = Hardline
    /\ output = <<97, 10, 32, 32, 32>>
    /\ current_line_len = 4
    /\ Len(LastLine(output)) = 3

\* the item on top of the stack with the document doc in place of its own
TopAs(doc) ==
    [St EXCEPT !.stack = [stack EXCEPT ![Len(stack)] =
        [Top EXCEPT !.doc = IF Top.doc.k = "Indent" THEN Indent(doc) ELSE doc]]]

\* the step leaves the output, the column and the space cache as the same step on
\* a Hardline would
AsHardline ==
    /\ output' = LoopBody(TopAs(Hardline), printer).output
    /\ current_line_len' = LoopBody(TopAs(Hardline), printer).current_line_len
    /\ space_cache' = LoopBody(TopAs(Hardline), printer).space_cache

\* C26: a Softline does what a Hardline does when current_line_len > max_width and
\* otherwise leaves output and column unchanged; a Mediumline the same with the
\* threshold max_width / 2; a Line appends one '\n' and sets the column to 0
C26_SoftMediumLine ==
    [][(/\ pc = "loop"
        /\ stack # <<>>
        /\ Top.left = <<>>
        /\ Top.break_left = 0
        /\ UnwrapDoc(Top).k \in {"Softline", "Mediumline", "Line"})
       => CASE UnwrapDoc(Top).k = "Line" ->
                  output' = Append(output, 10) /\ current_line_len' = 0
            [] UnwrapDoc(Top).k = "Softline" ->
                  IF current_line_len > printer.max_width THEN AsHardline
                  ELSE output' = output /\ current_line_len' = current_line_len
            [] UnwrapDoc(Top).k = "Mediumline" ->
                  IF current_line_len > printer.max_width \div 2 THEN AsHardline
                  ELSE output' = output /\ current_line_len' = current_line_len]_vars

\* nine bytes, then a Mediumline at depth 1 under SmallPrinter: the column 9 is
\* above 16 / 2 and the Mediumline has broken the line
C26_Witness ==
    /\ pc = "loop"
    /\ input.name = "soft_line"
    /\ input.a = Mediumline
    /\ input.d = 1
    /\ Len(input.s) = 9
    /\ popped # <<>>
    /\ popped[1].doc = Mediumline
    /\ output = input.s \o <<10, 32>>
    /\ current_line_len = 2

\* the bytes of the literal leaves of doc, left to right; the separator of a join
\* stands between its items
RECURSIVE Leaves(_)
RECURSIVE LeavesOfAll(_, _, _)
LeavesOfAll(docs, k, between) ==
    IF k > Len(docs) THEN <<>>
    ELSE (IF k > 1 THEN between ELSE <<>>) \o Leaves(docs[k]) \o LeavesOfAll(docs, k + 1, between)

Leaves(doc) ==
    IF doc.k \in LiteralKinds THEN LiteralBytes(doc)
    ELSE IF doc.k \in {"Join", "SmartJoin"} THEN LeavesOfAll(ItemsOf(doc), 1, Leaves(SepOf(doc)))
    ELSE LeavesOfAll(doc.kids, 1, <<>>)

\* a byte that is not a line break and not an indent byte
IsInk(byte) == byte \notin {9, 10, 32}

\* C27: every literal leaf of the document is emitted exactly once, in document
\* order, whatever wrapper variants enclose it: the output without its line
\* breaks and indent bytes is the leaves' bytes, left to right
C27_LeavesOnceInOrder ==
    (pc = "done" /\ input.name = "leaves") => SelectSeq(result, IsInk) = Leaves(input.doc)

\* Indent(Indent('x')) has been printed: the output is empty
C27_Witness ==
    /\ pc = "done"
    /\ input.name = "leaves"
    /\ input.doc = Indent(Indent(Char(120)))
    /\ Leaves(input.doc) = <<120>>
    /\ result = <<>>

\* how many bytes of t are the byte b
CountOf(t, b) == Cardinality({i \in 1..Len(t) : t[i] = b})

\* the bytes of t strictly between the only occurrence of byte a and that of byte b
Between(t, a, b) ==
    LET i == CHOOSE x \in 1..Len(t) : t[x] = a
        j == CHOOSE x \in 1..Len(t) : t[x] = b
    IN  SubSeq(t, i + 1, j - 1)

\* C28: between two adjacent items of a SmartJoin the output holds the separator
\* exactly once and at most one line break of the engine, for a literal separator
\* and for a non-literal one
C28_OneSeparatorOneBreak ==
    (pc = "done" /\ input.name = "between") =>
        \A k \in 1..(Len(ItemsOf(input.b)) - 1) :
            /\ CountOf(result, 96 + k) = 1
            /\ CountOf(result, 97 + k) = 1
            /\ CountOf(Between(result, 96 + k, 97 + k), 44) = 1
            /\ CountOf(Between(result, 96 + k, 97 + k), 10) <= 1

\* a SmartJoin on the non-literal separator Concat([',', ' ']) has been printed one
\* Indent deep, and two line breaks stand between two of its items
C28_Witness ==
    /\ pc = "done"
    /\ input.name = "between"
    /\ input.d = 1
    /\ ~is_literal_doc(input.a)
    /\ \E k \in 1..(Len(ItemsOf(input.b)) - 1) :
           /\ CountOf(result, 96 + k) = 1
           /\ CountOf(result, 97 + k) = 1
           /\ CountOf(Between(result, 96 + k, 97 + k), 44) = 1
           /\ CountOf(Between(result, 96 + k, 97 + k), 10) = 2

\* the state with the depth of the item on top of the stack as the current depth
AtPushedDepth == [St EXCEPT !.indent_delta = Top.indent_delta]

\* C29: every work item is emitted at the indent depth it was pushed with: the bytes
\* an iteration emits are those it emits when the current depth is the depth of the
\* popped item, so a sibling that follows an Indent or a Dedent subtree is emitted
\* at the depth of the enclosing node
C29_EmittedAtPushedDepth ==
    [][(/\ pc = "loop"
        /\ stack # <<>>
        /\ ~(overflow_checks /\ LoopOverflows(St, printer)))
       => output' = LoopBody(AtPushedDepth, printer).output]_vars

\* Join(Hardline, [Indent('x'), 'y']) has been printed at depth 4: the line break
\* before the sibling 'y' is the one of depth 8, seven indent bytes
C29_Witness ==
    /\ pc = "done"
    /\ input.name = "sibling"
    /\ input.a = Join(Hardline, <<Indent(Char(120)), Char(121)>>)
    /\ input.d = 1
    /\ printer = PRINTER
    /\ result = <<120, 10>> \o IndentBytes(7, PRINTER) \o <<121>>

Near == 1

\* the largest k with 10^k representable in the type
MaxPow(ty) ==
    CASE ty \in {"i8", "u8"} -> 2
      [] ty \in {"i16", "u16"} -> 4
      [] ty \in {"i32", "u32"} -> 9
      [] ty \in {"i64", "isize"} -> 18
      [] ty \in {"u64", "usize"} -> 19
      [] ty \in {"i128", "u128"} -> 38

\* the magnitudes 10^k - Near .. 10^k + Near, in the width of ty
Magnitudes(ty) ==
    LET L == SizeOf(ty)
    IN  {WrappingAdd(Pow10(k, L), NatLimbs(e, L)) : k \in 0..MaxPow(ty), e \in 0..Near}
        \cup {Sub(Pow10(k, L), NatLimbs(e, L)) : k \in 1..MaxPow(ty), e \in 1..Near}
        \cup {Zeros(L)}

\* T::MAX and T::MIN
MaxOf(ty) ==
    IF Signed(ty) THEN [Ones(SizeOf(ty)) EXCEPT ![SizeOf(ty)] = 127] ELSE Ones(SizeOf(ty))

MinOf(ty) ==
    IF Signed(ty) THEN [Zeros(SizeOf(ty)) EXCEPT ![SizeOf(ty)] = 128] ELSE Zeros(SizeOf(ty))

\* -x in the width of x
Negated(x) == WrappingAdd(Not(x), NatLimbs(1, Len(x)))

ValuesOf(ty) ==
    Magnitudes(ty) \cup {MaxOf(ty), MinOf(ty)}
    \cup (IF Signed(ty) THEN {Negated(m) : m \in Magnitudes(ty)} ELSE {})

DigitInputs ==
    UNION {{[name |-> "digit", ty |-> ty, bits |-> x] : x \in ValuesOf(ty)} : ty \in IntTypes}

InitDigit ==
    /\ pc = "digit"
    /\ input \in DigitInputs
    /\ printer = PRINTER
    /\ stack = <<>>
    /\ output = <<>>
    /\ current_line_len = 0
    /\ indent_delta = 0
    /\ space_cache = <<>>
    /\ join_breaks = <<>>
    /\ popped = <<>>
    /\ result = <<>>
    /\ dc_len = 0
    /\ dc_str = <<>>
    /\ memo_table = <<>>
    /\ walk_i = 0
    /\ overflow_checks = FALSE
    /\ pretty_attributes = <<>>
    /\ derived = Null
    /\ estimate = 0

\* sample.len()
CountDigits ==
    /\ pc = "digit"
    /\ dc_len' = len(input.ty, input.bits)
    /\ pc' = "counted"
    /\ UNCHANGED << input, printer, stack, output, current_line_len, indent_delta,
                    space_cache, join_breaks, popped, result, dc_str, memo_table, walk_i, overflow_checks,
                    pretty_attributes, derived, estimate >>

\* sample.to_string()
FormatDecimal ==
    /\ pc = "counted"
    /\ dc_str' = to_string(input.ty, input.bits)
    /\ pc' = "formatted"
    /\ UNCHANGED << input, printer, stack, output, current_line_len, indent_delta,
                    space_cache, join_breaks, popped, result, dc_len, memo_table, walk_i, overflow_checks,
                    pretty_attributes, derived, estimate >>

NextDigit == CountDigits \/ FormatDecimal

SpecDigit == InitDigit /\ [][NextDigit]_vars

\* C10: for every value n of every supported integer type, DigitCount::len(n) is the
\* length of n's decimal string, a leading '-' counted.
C10_DigitCountIsDecimalLength ==
    pc = "formatted" => dc_len = Len(dc_str)

\* C10 witness: i128::MIN was counted and formatted: 39 digits and the sign
C10_Witness ==
    /\ pc = "formatted"
    /\ input.ty = "i128"
    /\ input.bits = MinOf("i128")
    /\ dc_len = 40
    /\ dc_str[1] = 45

(***************************************************************************)
(* The justifier on its own: text_justify of src/src/utils.rs, the memo     *)
(* filled by the nested loops and then walked one push at a time            *)
(***************************************************************************)

\* the most items tried
MaxWords == 4

\* the widest item tried
MaxWordLen == 2

\* the widest separator tried
MaxSep == 2

\* the widest line tried
MaxLine == 5

RECURSIVE SeqsUpTo(_, _)
SeqsUpTo(S, n) ==
    IF n = 0 THEN {<<>>}
    ELSE SeqsUpTo(S, n - 1) \cup {Append(q, x) : q \in {r \in SeqsUpTo(S, n - 1) : Len(r) = n - 1}, x \in S}

JustifyInputs ==
    {[name |-> "justify", sep_length |-> sl, doc_lengths |-> dl, max_width |-> mw] :
        sl \in 0..MaxSep, dl \in SeqsUpTo(0..MaxWordLen, MaxWords), mw \in 0..MaxLine}

InitJustify ==
    /\ pc = "justify"
    /\ input \in JustifyInputs
    /\ printer = PRINTER
    /\ stack = <<>>
    /\ output = <<>>
    /\ current_line_len = 0
    /\ indent_delta = 0
    /\ space_cache = <<>>
    /\ join_breaks = <<>>
    /\ popped = <<>>
    /\ result = <<>>
    /\ dc_len = 0
    /\ dc_str = <<>>
    /\ memo_table = <<>>
    /\ walk_i = 0
    /\ overflow_checks = FALSE
    /\ pretty_attributes = <<>>
    /\ derived = Null
    /\ estimate = 0

\* the memo is initialised and the nested loops run; let mut i = 0
FillMemo ==
    /\ pc = "justify"
    /\ memo_table' = justify_memo(input.sep_length, input.doc_lengths, input.max_width)
    /\ walk_i' = 0
    /\ pc' = "walk"
    /\ UNCHANGED << input, printer, stack, output, current_line_len, indent_delta,
                    space_cache, join_breaks, popped, result, dc_len, dc_str, overflow_checks,
                    pretty_attributes, derived, estimate >>

\* one iteration of while i < n { let j = memo[i].j; output.push(j); i = j; }
\* (a walk that has pushed more than n positions is not followed further)
WalkStep ==
    /\ pc = "walk"
    /\ walk_i < Len(input.doc_lengths)
    /\ Len(result) <= Len(input.doc_lengths)
    /\ result' = Append(result, memo_table[walk_i + 1].j)
    /\ walk_i' = memo_table[walk_i + 1].j
    /\ UNCHANGED << pc, input, printer, stack, output, current_line_len, indent_delta,
                    space_cache, join_breaks, popped, dc_len, dc_str, memo_table,
                    overflow_checks,
                    pretty_attributes, derived, estimate >>

\* i >= n: the loop is left and text_justify returns
WalkDone ==
    /\ pc = "walk"
    /\ walk_i >= Len(input.doc_lengths)
    /\ pc' = "justified"
    /\ UNCHANGED << input, printer, stack, output, current_line_len, indent_delta,
                    space_cache, join_breaks, popped, result, dc_len, dc_str, memo_table,
                    walk_i, overflow_checks,
                    pretty_attributes, derived, estimate >>

NextJustify == FillMemo \/ WalkStep \/ WalkDone

SpecJustify == InitJustify /\ [][NextJustify]_vars

\* the length of a line over the items [i..j), clamped to max_line
LineLength(lens, sep_len, max_line, i, j) ==
    Min(SumRange(lens, i + 1, j) + sep_len * (j - i - 1), max_line)

LineBadness(lens, sep_len, max_line, i, j) ==
    (max_line - LineLength(lens, sep_len, max_line, i, j)) ^ 3

\* the ways of splitting the items 0..n into consecutive lines, each the set of the
\* positions at which its lines end
Splittings(n) == IF n = 0 THEN {{}} ELSE {S \cup {n} : S \in SUBSET (1..(n - 1))}

\* the start of the line of the splitting S that ends at j
LineStart(S, j) ==
    LET before == {0} \cup {k \in S : k < j}
    IN  CHOOSE k \in before : \A m \in before : m <= k

\* the badness of the splitting S, summed over its lines
TotalBadness(lens, sep_len, max_line, S) ==
    SumRange([j \in 1..Len(lens) |->
                 IF j \in S THEN LineBadness(lens, sep_len, max_line, LineStart(S, j), j) ELSE 0],
             1, Len(lens))

\* no line of S goes on after its length has reached max_line
StopsAtMaxLine(lens, sep_len, max_line, S) ==
    \A j \in S : \A k \in (LineStart(S, j) + 1)..(j - 1) :
        SumRange(lens, LineStart(S, j) + 1, k) + sep_len * (k - LineStart(S, j) - 1) < max_line

\* the positions text_justify returned, as a splitting
Returned == {result[k] : k \in 1..Len(result)}

\* C11 as stated: the returned break list has total badness at most that of every
\* other splitting of the items into consecutive lines.
C11_JustifierOptimal ==
    pc = "justified" =>
        \A S \in Splittings(Len(input.doc_lengths)) :
            TotalBadness(input.doc_lengths, input.sep_length, input.max_width, Returned)
                <= TotalBadness(input.doc_lengths, input.sep_length, input.max_width, S)

\* C11 amended: the returned break list has total badness at most that of every
\* splitting none of whose lines goes on after its length has reached max_line.
C11_JustifierOptimalAmongStopped ==
    pc = "justified" =>
        \A S \in Splittings(Len(input.doc_lengths)) :
            StopsAtMaxLine(input.doc_lengths, input.sep_length, input.max_width, S) =>
                TotalBadness(input.doc_lengths, input.sep_length, input.max_width, Returned)
                    <= TotalBadness(input.doc_lengths, input.sep_length, input.max_width, S)

\* C11 witness: for the items 2, 1 and max_line 2 the justifier returned two lines of
\* total badness 1, while the single line over both items has badness 0
C11_Witness ==
    /\ pc = "justified"
    /\ input.doc_lengths = <<2, 1>>
    /\ input.sep_length = 0
    /\ input.max_width = 2
    /\ result = <<1, 2>>
    /\ TotalBadness(input.doc_lengths, 0, 2, Returned) = 1
    /\ TotalBadness(input.doc_lengths, 0, 2, {2}) = 0

\* C12: the positions text_justify appends are strictly increasing, each lies in
\* 1..n, and when it returns the last one is n (none when n = 0).
C12_JustifierCovers ==
    LET n == Len(input.doc_lengths)
    IN  pc \in {"walk", "justified"} =>
            /\ \A k \in 1..Len(result) : result[k] \in 1..n
            /\ \A k \in 1..(Len(result) - 1) : result[k] < result[k + 1]
            /\ pc = "justified" => IF n = 0 THEN result = <<>> ELSE result[Len(result)] = n

\* C12 witness: four items were split into more than one line and the walk returned
C12_Witness ==
    /\ pc = "justified"
    /\ Len(input.doc_lengths) = MaxWords
    /\ Len(result) > 1
    /\ result[Len(result)] = MaxWords

\* badness(i, j) + cost(j) for the line from item i that ends at position j, cost(j)
\* being what the memo holds for j
TieValue(i, j) ==
    LineBadness(input.doc_lengths, input.sep_length, input.max_width, i, j)
    + memo_table[j + 1].badness

\* the end positions the inner loop reaches from i: those up to the first one at
\* which the line has reached max_width
ExaminedEnds(i) ==
    {j \in (i + 1)..Len(input.doc_lengths) :
        \A k \in (i + 1)..(j - 1) :
            SumRange(input.doc_lengths, i + 1, k) + input.sep_length * (k - i - 1)
                < input.max_width}

\* the lowest of the positions of ends at which TieValue(i, _) is least
LowestMinimiser(i, ends) ==
    LET least == {j \in ends : \A k \in ends : TieValue(i, j) <= TieValue(i, k)}
    IN  CHOOSE j \in least : \A k \in least : j <= k

\* the positions of ends at which TieValue(i, _) is least
Minimisers(i, ends) == {j \in ends : \A k \in ends : TieValue(i, j) <= TieValue(i, k)}

\* C24 as stated: for every start i, when several end positions j in (i, n] give
\* the same least value of badness(i, j) + cost(j), the memo records the lowest
C24_LowestTieWins ==
    pc \in {"walk", "justified"} =>
        \A i \in 0..(Len(input.doc_lengths) - 1) :
            Cardinality(Minimisers(i, (i + 1)..Len(input.doc_lengths))) > 1
                => memo_table[i + 1].j = LowestMinimiser(i, (i + 1)..Len(input.doc_lengths))

\* C24 amended: for every start i the memo records the lowest of the end positions
\* the inner loop reaches from i at which badness(i, j) + cost(j) is least
C24_LowestTieWinsAmongExamined ==
    pc \in {"walk", "justified"} =>
        \A i \in 0..(Len(input.doc_lengths) - 1) :
            memo_table[i + 1].j = LowestMinimiser(i, ExaminedEnds(i))

\* a start with two examined end positions of the same least value: the memo holds
\* the lower one
C24_Witness ==
    /\ pc = "justified"
    /\ \E i \in 0..(Len(input.doc_lengths) - 1) :
          \E j1 \in ExaminedEnds(i) : \E j2 \in ExaminedEnds(i) :
              /\ j1 < j2
              /\ TieValue(i, j1) = TieValue(i, j2)
              /\ \A k \in ExaminedEnds(i) : TieValue(i, j1) <= TieValue(i, k)
              /\ memo_table[i + 1].j = j1

(***************************************************************************)
(* The derive macro: src/derive/lib.rs                                     *)
(***************************************************************************)

\* one item of the list inside #[pprint(..)]: its path and, after "=", its string
\* literal (value is <<>> when the item has no "= literal")
Meta(path, value) == [path |-> path, value |-> value]

\* an attribute: #[path(items)]
Attribute(path, items) == [path |-> path, items |-> items]

\* PrettyAttributes::default()
DefaultAttributes ==
    [skip |-> FALSE, indent |-> FALSE, rename |-> <<>>, getter |-> <<>>, verbose |-> FALSE]

\* the closure given to parse_nested_meta, on one item: the attributes after it
\* and whether it returned Ok
apply_meta(pa, meta) ==
    CASE meta.path = "skip" -> [ok |-> TRUE, pa |-> [pa EXCEPT !.skip = TRUE]]
      [] meta.path = "indent" -> [ok |-> TRUE, pa |-> [pa EXCEPT !.indent = TRUE]]
      [] meta.path = "verbose" -> [ok |-> TRUE, pa |-> [pa EXCEPT !.verbose = TRUE]]
      [] meta.path = "rename" ->
            IF meta.value = <<>> THEN [ok |-> FALSE, pa |-> pa]
            ELSE [ok |-> TRUE, pa |-> [pa EXCEPT !.rename = meta.value]]
      [] meta.path = "getter" ->
            IF meta.value = <<>> THEN [ok |-> FALSE, pa |-> pa]
            ELSE [ok |-> TRUE, pa |-> [pa EXCEPT !.getter = meta.value]]
      [] OTHER -> [ok |-> FALSE, pa |-> pa]

\* attr.parse_nested_meta(closure) from the item k on: it stops at the first Err
RECURSIVE parse_nested_meta(_, _, _)
parse_nested_meta(pa, items, k) ==
    IF k > Len(items) THEN [ok |-> TRUE, pa |-> pa]
    ELSE Bound(apply_meta(pa, items[k]), LAMBDA r :
         IF r.ok THEN parse_nested_meta(r.pa, items, k + 1) ELSE r)

\* parse_pretty_attrs over the attributes from k on; the Result of
\* parse_nested_meta is dropped (let _ = ..)
RECURSIVE parse_attrs_from(_, _, _)
parse_attrs_from(pa, attrs, k) ==
    IF k > Len(attrs) THEN pa
    ELSE IF attrs[k].path # "pprint" THEN parse_attrs_from(pa, attrs, k + 1)
    ELSE parse_attrs_from(parse_nested_meta(pa, attrs[k].items, 1).pa, attrs, k + 1)

parse_pretty_attrs(attrs) == parse_attrs_from(DefaultAttributes, attrs, 1)

apply_pretty_doc_attributes(field_doc, pretty_attr) ==
    IF pretty_attr.indent THEN indent(field_doc) ELSE field_doc

\* the closure format_key_value of generate_struct_fields_match on one field, the
\* field's value already converted: <<>> for None, <<doc>> for Some(doc)
format_key_value(field) ==
    Bound(parse_pretty_attrs(field.attrs), LAMBDA pretty_attrs :
    IF pretty_attrs.skip THEN <<>>
    ELSE <<Concat(<<from_str(IF pretty_attrs.rename # <<>> THEN pretty_attrs.rename[1]
                             ELSE field.ident),
                    from_str(<<58, 32>>),
                    apply_pretty_doc_attributes(field.value, pretty_attrs)>>)>>)

\* generate_struct_fields_match: filter_map of format_key_value over the fields
RECURSIVE generate_struct_fields_match(_, _)
generate_struct_fields_match(fields, k) ==
    IF k > Len(fields) THEN <<>>
    ELSE format_key_value(fields[k]) \o generate_struct_fields_match(fields, k + 1)

\* the expression generate_struct_match emits, evaluated on the struct's value
generate_struct_match(ident, data, fields, container_attrs) ==
    IF data = "unit" THEN from_str(ident)
    ELSE Bound(indent(wrap(from_str(<<123>>),
                           group(join(add(from_str(<<44, 32>>), Hardline),
                                      generate_struct_fields_match(fields, 1))),
                           dedent(from_str(<<125>>)))), LAMBDA body :
         IF container_attrs.verbose
         THEN Concat(<<indent(group(from_str((IF container_attrs.rename # <<>>
                                              THEN container_attrs.rename[1]
                                              ELSE ident) \o <<32>>))), body>>)
         ELSE body)

\* texts of the inputs
TextInner == <<73, 110, 110, 101, 114>>
TextS == <<83>>
TextX == <<120>>
TextNo == <<110, 111>>
TextK == <<107>>

\* the lists of options a container carries in the inputs
ContainerAttrs ==
    {<<>>,
     <<Attribute("derive", <<Meta("Debug", <<>>)>>)>>,
     <<Attribute("pprint", <<Meta("verbose", <<>>)>>)>>,
     <<Attribute("pprint", <<Meta("verbose", <<>>), Meta("rename", <<TextInner>>)>>)>>,
     <<Attribute("pprint", <<Meta("rename", <<TextInner>>)>>)>>,
     <<Attribute("pprint", <<Meta("ignore", <<>>)>>)>>,
     <<Attribute("pprint", <<Meta("ignore", <<>>), Meta("verbose", <<>>)>>)>>,
     <<Attribute("pprint", <<Meta("verbose", <<>>), Meta("ignore", <<>>)>>)>>,
     <<Attribute("pprint", <<Meta("rename", <<>>)>>), Attribute("pprint", <<Meta("verbose", <<>>)>>)>>}

\* the lists of options a field carries in the inputs
FieldAttrs ==
    {<<>>,
     <<Attribute("pprint", <<Meta("skip", <<>>)>>)>>,
     <<Attribute("pprint", <<Meta("indent", <<>>)>>)>>,
     <<Attribute("pprint", <<Meta("rename", <<TextK>>)>>)>>,
     <<Attribute("pprint", <<Meta("ignore", <<>>)>>)>>,
     <<Attribute("pprint", <<Meta("ignore", <<>>), Meta("skip", <<>>)>>)>>}

Field(ident, attrs, value) == [ident |-> ident, attrs |-> attrs, value |-> value]

\* the items the macro is applied to, with a value of each: structs of the fields x
\* and no, a unit struct and a union
DeriveInputs ==
    {[name |-> "derive", ident |-> TextS, data |-> "struct", attrs |-> ca,
      fields |-> <<Field(TextX, fx, IntDoc("i32", 7)), Field(TextNo, fn, IntDoc("usize", 0))>>] :
        ca \in ContainerAttrs, fx \in FieldAttrs, fn \in FieldAttrs}
    \cup {[name |-> "derive", ident |-> TextS, data |-> d, attrs |-> ca, fields |-> <<>>] :
        ca \in ContainerAttrs, d \in {"unit", "union", "struct"}}

InitDerive ==
    /\ pc = "derive"
    /\ input \in DeriveInputs
    /\ printer = PRINTER
    /\ stack = <<>>
    /\ output = <<>>
    /\ current_line_len = 0
    /\ indent_delta = 0
    /\ space_cache = <<>>
    /\ join_breaks = <<>>
    /\ popped = <<>>
    /\ result = <<>>
    /\ dc_len = 0
    /\ dc_str = <<>>
    /\ memo_table = <<>>
    /\ walk_i = 0
    /\ overflow_checks = FALSE
    /\ pretty_attributes = <<>>
    /\ derived = Null
    /\ estimate = 0

\* let pretty_attributes = parse_pretty_attrs(&input.attrs)
ParseContainerAttrs ==
    /\ pc = "derive"
    /\ pretty_attributes' = parse_pretty_attrs(input.attrs)
    /\ pc' = "match"
    /\ UNCHANGED << input, printer, stack, output, current_line_len, indent_delta,
                    space_cache, join_breaks, popped, result, dc_len, dc_str, memo_table,
                    walk_i, overflow_checks, derived, estimate >>

\* Data::Struct: the From impl is generated; derived is the Doc it builds
GenerateStructMatch ==
    /\ pc = "match"
    /\ input.data \in {"struct", "unit"}
    /\ derived' = generate_struct_match(input.ident, input.data, input.fields, pretty_attributes)
    /\ pc' = "expanded"
    /\ UNCHANGED << input, printer, stack, output, current_line_len, indent_delta,
                    space_cache, join_breaks, popped, result, dc_len, dc_str, memo_table,
                    walk_i, overflow_checks, pretty_attributes, estimate >>

\* neither a struct nor an enum: panic!("Only structs and enums are supported."),
\* which the compiler reports as an error of the build
RejectData ==
    /\ pc = "match"
    /\ input.data \notin {"struct", "unit"}
    /\ pc' = "compile_error"
    /\ UNCHANGED << input, printer, stack, output, current_line_len, indent_delta,
                    space_cache, join_breaks, popped, result, dc_len, dc_str, memo_table,
                    walk_i, overflow_checks, pretty_attributes, derived, estimate >>

\* pprint(s, None) on a value of the derived type
PrintDerived ==
    /\ pc = "expanded"
    /\ result' = pprint(derived, printer)
    /\ pc' = "printed"
    /\ UNCHANGED << input, printer, stack, output, current_line_len, indent_delta,
                    space_cache, join_breaks, popped, dc_len, dc_str, memo_table,
                    walk_i, overflow_checks, pretty_attributes, derived, estimate >>

NextDerive == ParseContainerAttrs \/ GenerateStructMatch \/ RejectData \/ PrintDerived

SpecDerive == InitDerive /\ [][NextDerive]_vars

\* parse_nested_meta returns Err on one of the attributes: an unknown option, or a
\* rename or getter without "= literal"
AttrsInError(attrs) ==
    \E k \in 1..Len(attrs) :
        attrs[k].path = "pprint" /\ ~parse_nested_meta(DefaultAttributes, attrs[k].items, 1).ok

\* an attribute of the container or of one of its fields is in error
InputInError(inp) ==
    AttrsInError(inp.attrs) \/ \E k \in 1..Len(inp.fields) : AttrsInError(inp.fields[k].attrs)

\* C17: in the output of a derived record the field names appear as "name: value"
\* if and only if the container has the verbose option
C17_NamesIffVerbose ==
    (pc = "printed" /\ input.data = "struct" /\ input.fields # <<>>
     /\ input.fields[1].attrs = <<>>)
        => (Occurs(<<120, 58, 32, 55>>, result)
            <=> \E k \in 1..Len(input.attrs) :
                    \E m \in 1..Len(input.attrs[k].items) :
                        input.attrs[k].path = "pprint" /\ input.attrs[k].items[m].path = "verbose")

\* struct S { x: 7, no: 0 } with no attribute at all prints "{x: 7, no: 0}"
C17_Witness ==
    /\ pc = "printed"
    /\ input.data = "struct"
    /\ input.attrs = <<>>
    /\ input.fields # <<>>
    /\ input.fields[1].attrs = <<>>
    /\ input.fields[2].attrs = <<>>
    /\ ~pretty_attributes.verbose
    /\ Occurs(<<120, 58, 32, 55>>, result)
    /\ Occurs(<<110, 111, 58, 32, 48>>, result)

\* C18: an unknown option or bad syntax inside #[pprint(..)] is an error of the
\* build: no expansion is produced for an item with such an attribute
C18_UnknownOptionRejected ==
    InputInError(input) => pc \notin {"expanded", "printed"}

\* the field no carries #[pprint(ignore)] and the container #[pprint(verbose)]: the
\* impl is generated and the field printed as "no: 0"
C18_Witness ==
    /\ pc = "printed"
    /\ input.data = "struct"
    /\ input.attrs = <<Attribute("pprint", <<Meta("verbose", <<>>)>>)>>
    /\ input.fields # <<>>
    /\ input.fields[1].attrs = <<>>
    /\ input.fields[2].attrs = <<Attribute("pprint", <<Meta("ignore", <<>>)>>)>>
    /\ Occurs(<<110, 111, 58, 32, 48>>, result)

(***************************************************************************)
(* The width estimator on its own: count_text_length of src/src/print.rs   *)
(***************************************************************************)

\* the largest number of documents combined in an input of the estimator
MaxParts == 5

\* the documents combined: estimates 1, 5, 3, 2 and 1 under every printer
Parts == <<Char(120), from_str(Hello), IntDoc("i32", -12), IntDoc("u8", 40), Char(121)>>

\* the runs of Parts of up to MaxParts documents, the empty run among them
PartRuns ==
    {r \in {SubSeq(Parts, i, j) : i \in 1..Len(Parts), j \in 0..Len(Parts)} : Len(r) <= MaxParts}

\* max_width of the printers the estimator is run under
EstimateWidths == {0, 1, 2, 3, 16, 80, 81}

EstimateInput(kind, doc, xs, sep, p) ==
    [name |-> "estimate", kind |-> kind, doc |-> doc, xs |-> xs, sep |-> sep, printer |-> p]

\* the line variants under printers of every width, and the widest one
LineEstimateInputs ==
    {EstimateInput("line", l, <<>>, Null, Printer(w, 4, FALSE, FALSE)) :
        l \in {Softline, Mediumline, Hardline, Line}, w \in EstimateWidths \cup {USIZE_MAX}}

\* the runs of Parts combined by concat, by Doc::Concat, by the + operator (from
\* the left), by wrap (runs of three), by join and by smart_join
CombinedEstimateInputs ==
    UNION {{EstimateInput("concat", concat(xs), xs, Null, p),
            EstimateInput("Concat", Concat(xs), xs, Null, p),
            EstimateInput("join", join(CommaSpace, xs), xs, CommaSpace, p),
            EstimateInput("smart_join", smart_join(CommaSpace, xs), xs, CommaSpace, p)} :
        xs \in PartRuns, p \in {PRINTER, SmallPrinter}}
    \cup {EstimateInput("add", add(xs[1], xs[2]), xs, Null, p) :
        xs \in {r \in PartRuns : Len(r) = 2}, p \in {PRINTER, SmallPrinter}}
    \cup {EstimateInput("add", add(add(xs[1], xs[2]), xs[3]), xs, Null, p) :
        xs \in {r \in PartRuns : Len(r) = 3}, p \in {PRINTER, SmallPrinter}}
    \cup {EstimateInput("wrap", wrap(xs[1], xs[2], xs[3]), xs, Null, p) :
        xs \in {r \in PartRuns : Len(r) = 3}, p \in {PRINTER, SmallPrinter}}
    \cup {EstimateInput("smart_join", smart_join(CommaSpace, xs), xs, CommaSpace, WidestPrinter) :
        xs \in {r \in PartRuns : Len(r) = 1}}

EstimateInputs == LineEstimateInputs \cup CombinedEstimateInputs

InitEstimate ==
    /\ pc = "estimate"
    /\ input \in EstimateInputs
    /\ printer = input.printer
    /\ stack = <<>>
    /\ output = <<>>
    /\ current_line_len = 0
    /\ indent_delta = 0
    /\ space_cache = <<>>
    /\ join_breaks = <<>>
    /\ popped = <<>>
    /\ result = <<>>
    /\ dc_len = 0
    /\ dc_str = <<>>
    /\ memo_table = <<>>
    /\ walk_i = 0
    /\ overflow_checks \in BOOLEAN
    /\ pretty_attributes = <<>>
    /\ derived = Null
    /\ estimate = 0

\* count_text_length(&doc, &printer) returns
Estimate ==
    /\ pc = "estimate"
    /\ ~(overflow_checks /\ text_length(input.doc, printer).o)
    /\ estimate' = count_text_length(input.doc, printer)
    /\ pc' = "estimated"
    /\ UNCHANGED << input, printer, stack, output, current_line_len, indent_delta,
                    space_cache, join_breaks, popped, result, dc_len, dc_str, memo_table,
                    walk_i, overflow_checks, pretty_attributes, derived >>

\* an addition of count_text_length overflows in a build with overflow checks
EstimatePanics ==
    /\ pc = "estimate"
    /\ overflow_checks
    /\ text_length(input.doc, printer).o
    /\ pc' = "panicked"
    /\ UNCHANGED << input, printer, stack, output, current_line_len, indent_delta,
                    space_cache, join_breaks, popped, result, dc_len, dc_str, memo_table,
                    walk_i, overflow_checks, pretty_attributes, derived, estimate >>

NextEstimate == Estimate \/ EstimatePanics

SpecEstimate == InitEstimate /\ [][NextEstimate]_vars

\* C22: the estimate of Softline and of Mediumline is max_width / 2, that of
\* Hardline and of Line is max_width, under every printer
C22_LineEstimates ==
    (pc = "estimated" /\ input.kind = "line") =>
        estimate = IF input.doc \in {Softline, Mediumline}
                   THEN printer.max_width \div 2
                   ELSE printer.max_width

\* Mediumline under the default printer: the estimate is 0, not 40
C22_Witness ==
    /\ pc = "estimated"
    /\ input.kind = "line"
    /\ input.doc = Mediumline
    /\ printer.max_width = 80
    /\ estimate = 0

\* the sum of the estimates of the documents xs[k..]
RECURSIVE SumOfEstimates(_, _, _)
SumOfEstimates(xs, k, p) ==
    IF k > Len(xs) THEN 0
    ELSE count_text_length(xs[k], p) + SumOfEstimates(xs, k + 1, p)

\* C23: the estimate of a concatenation built by concat, wrap, + or Doc::Concat is
\* the sum of the estimates of its documents; that of a Join and of a SmartJoin is
\* that sum plus the estimate of the separator times n - 1
C23_EstimateIsSum ==
    (pc = "estimated" /\ input.kind # "line" /\ printer.max_width # USIZE_MAX) =>
        estimate = SumOfEstimates(input.xs, 1, printer)
                   + IF input.kind \in {"join", "smart_join"} /\ input.xs # <<>>
                     THEN count_text_length(input.sep, printer) * (Len(input.xs) - 1)
                     ELSE 0

\* concat(vec!['x', "Hello"]) is a DoubleDoc: its estimate is 0, the sum is 6
C23_Witness ==
    /\ pc = "estimated"
    /\ input.kind = "concat"
    /\ input.xs = <<Char(120), from_str(Hello)>>
    /\ input.doc = DoubleDoc(Char(120), from_str(Hello))
    /\ SumOfEstimates(input.xs, 1, printer) = 6
    /\ estimate = 0


============================================================================
